---- MODULE Spec2Model ----
(***************************************************************************)
(* A model of pyside_settings_manager.settings.QtSettingsManager: the      *)
(* touched/clean change tracking, the widget tree walker, the handler      *)
(* registry and the persistence facade.                                    *)
(***************************************************************************)
EXTENDS Integers, Sequences, FiniteSets, TLC

None == "None"

(***************************************************************************)
(* The widget tree the manager observes.  Widgets are identified by short  *)
(* ids; objectName "" is an undeclared name.                               *)
(***************************************************************************)
\* Every widget an application window of the model can contain.  A window
\* is built from a subset of them.
Widgets ==
  {"mw", "cw", "cf", "cb", "le", "nn", "pb", "co", "sp", "ds", "gb", "r1", "r2",
   "mcb", "tx", "tw", "pg", "pcb", "sl", "dup", "nb", "tb"}

\* The runtime class of each widget.  MyCheckBox is an application subclass
\* of QCheckBox.
TypeOf(w) ==
  CASE w = "mw" -> "QMainWindow"
    [] w = "cw" -> "QWidget"
    [] w = "cf" -> "QFrame"
    [] w = "cb" -> "QCheckBox"
    [] w = "le" -> "QLineEdit"
    [] w = "nn" -> "QCheckBox"
    [] w = "pb" -> "QPushButton"
    [] w = "co" -> "QComboBox"
    [] w = "sp" -> "QSpinBox"
    [] w = "ds" -> "QDoubleSpinBox"
    [] w = "gb" -> "QGroupBox"
    [] w = "r1" -> "QRadioButton"
    [] w = "r2" -> "QRadioButton"
    [] w = "mcb" -> "MyCheckBox"
    [] w = "tx" -> "QTextEdit"
    [] w = "tw" -> "QTabWidget"
    [] w = "pg" -> "QWidget"
    [] w = "pcb" -> "QCheckBox"
    [] w = "sl" -> "QSlider"
    [] w = "dup" -> "QCheckBox"
    [] w = "nb" -> "QPushButton"
    [] w = "tb" -> "QCheckBox"

\* widget.objectName(); Qt lets widgets share a name, and "dup" is a second
\* check box created with the name of the first
objectName(w) ==
  CASE w = "mw" -> "mainWindow"
    [] w = "cw" -> "centralWidget"
    [] w = "cf" -> "centralFrame"
    [] w = "nn" -> ""
    [] w = "dup" -> "cb"
    [] OTHER -> w

\* The layout of the window: the direct children of each widget, in
\* declaration order, when all of them are present.  The central widget is
\* "cw" (a plain QWidget) or "cf" (a QFrame); "tb" is a check box created
\* with the window as its parent, outside the central widget; the page "pg"
\* of the tab widget holds a check box (the tab widget's internal stacked
\* widget is left out).
ChildrenOf(w) ==
  CASE w = "mw" -> <<"cw", "cf", "tb">>
    [] w \in {"cw", "cf"} ->
         <<"nn", "cb", "dup", "le", "pb", "nb", "co", "sp", "ds", "gb", "tx", "tw", "sl">>
    [] w = "gb" -> <<"r1", "r2", "mcb">>
    [] w = "tw" -> <<"pg">>
    [] w = "pg" -> <<"pcb">>
    [] OTHER -> <<>>

\* type(widget).__mro__, most derived first
Mro(t) ==
  CASE t = "QMainWindow" -> <<"QMainWindow", "QWidget", "QObject">>
    [] t = "QWidget" -> <<"QWidget", "QObject">>
    [] t = "QFrame" -> <<"QFrame", "QWidget", "QObject">>
    [] t = "QGroupBox" -> <<"QGroupBox", "QWidget", "QObject">>
    [] t = "QCheckBox" -> <<"QCheckBox", "QAbstractButton", "QWidget", "QObject">>
    [] t = "MyCheckBox" ->
         <<"MyCheckBox", "QCheckBox", "QAbstractButton", "QWidget", "QObject">>
    [] t = "QPushButton" -> <<"QPushButton", "QAbstractButton", "QWidget", "QObject">>
    [] t = "QRadioButton" -> <<"QRadioButton", "QAbstractButton", "QWidget", "QObject">>
    [] t = "QLineEdit" -> <<"QLineEdit", "QWidget", "QObject">>
    [] t = "QComboBox" -> <<"QComboBox", "QWidget", "QObject">>
    [] t = "QSpinBox" -> <<"QSpinBox", "QAbstractSpinBox", "QWidget", "QObject">>
    [] t = "QDoubleSpinBox" ->
         <<"QDoubleSpinBox", "QAbstractSpinBox", "QWidget", "QObject">>
    [] t = "QTextEdit" ->
         <<"QTextEdit", "QAbstractScrollArea", "QFrame", "QWidget", "QObject">>
    [] t = "QTabWidget" -> <<"QTabWidget", "QWidget", "QObject">>
    [] t = "QSlider" -> <<"QSlider", "QAbstractSlider", "QWidget", "QObject">>

\* isinstance(widget, cls)
IsInstance(w, cls) == \E i \in 1..Len(Mro(TypeOf(w))) : Mro(TypeOf(w))[i] = cls

\* A control with a checked state.
IsCheckKind(w) ==
  TypeOf(w) \in {"QCheckBox", "MyCheckBox", "QPushButton", "QRadioButton"}

\* The values a user can give a control.  Numbers are written as numerals:
\* a combo box of three items can also show no selection (index -1), the
\* spin box ranges over 0..100, the double spin box over 0.0..10.0 (with
\* seven decimals, so that it can hold 1.2300005), the tab
\* widget has two tabs and the slider ranges over 0..50.
ValuesOf(w) ==
  CASE w = "nb" -> {"unchecked"}
    [] w # "nb" /\ IsCheckKind(w) -> {"unchecked", "checked"}
    [] TypeOf(w) \in {"QLineEdit", "QTextEdit"} -> {"A", "B"}
    [] TypeOf(w) = "QComboBox" -> {"-1", "0", "1"}
    [] TypeOf(w) = "QSpinBox" -> {"0", "10"}
    [] TypeOf(w) = "QDoubleSpinBox" -> {"1.23", "1.2300005", "4.56"}
    [] TypeOf(w) = "QTabWidget" -> {"0", "1"}
    [] TypeOf(w) = "QSlider" -> {"0", "25"}
    [] OTHER -> {}

\* The value every control holds when the window is built.
InitialValue(w) ==
  CASE w = "r1" -> "checked"
    [] w # "r1" /\ IsCheckKind(w) -> "unchecked"
    [] TypeOf(w) \in {"QLineEdit", "QTextEdit"} -> "A"
    [] TypeOf(w) = "QComboBox" -> "0"
    [] TypeOf(w) = "QSpinBox" -> "10"
    [] TypeOf(w) = "QDoubleSpinBox" -> "1.23"
    [] TypeOf(w) = "QTabWidget" -> "0"
    [] TypeOf(w) = "QSlider" -> "25"
    [] TypeOf(w) = "QMainWindow" -> "geom0"
    [] OTHER -> ""

(***************************************************************************)
(* QVariant values held by a QSettings store, and Qt's conversions.        *)
(***************************************************************************)
VBool(b) == [t |-> "bool", s |-> IF b THEN "true" ELSE "false"]
VStr(s) == [t |-> "str", s |-> s]
VBytes(s) == [t |-> "bytes", s |-> s]
VInt(s) == [t |-> "int", s |-> s]
VFloat(s) == [t |-> "float", s |-> s]

\* The integer a numeral denotes; text that is no numeral converts to 0.
IntOf(s) ==
  CASE s = "-1" -> -1
    [] s = "0" -> 0
    [] s = "1" -> 1
    [] s = "2" -> 2
    [] s = "10" -> 10
    [] s = "25" -> 25
    [] s = "50" -> 50
    [] s = "100" -> 100
    [] s = "999" -> 999
    [] OTHER -> 0

\* The numeral of an integer the model uses.
Numeral(n) ==
  CHOOSE s \in {"-1", "0", "1", "2", "10", "25", "50", "100", "999"} : IntOf(s) = n

\* QVariant -> int as settings.value(..., type=int) converts
ToInt(v) ==
  CASE v.t = "bool" -> (IF v.s = "true" THEN 1 ELSE 0)
    [] v.t \in {"int", "str"} -> IntOf(v.s)
    [] OTHER -> 0

\* QVariant -> float as settings.value(..., type=float) converts; the model
\* keeps a double as its decimal numeral
ToFloat(v) ==
  IF v.t \in {"float", "str"} /\ v.s \in {"0.0", "1.23", "1.2300005", "4.56", "10.0"}
  THEN v.s ELSE "0.0"

\* A double in units of 1e-7, for the arithmetic of the comparison.
FloatUnits(s) ==
  CASE s = "1.23" -> 12300000
    [] s = "1.2300005" -> 12300005
    [] s = "4.56" -> 45600000
    [] s = "10.0" -> 100000000
    [] OTHER -> 0

\* FLOAT_TOLERANCE = 1e-6, in the same units
FLOAT_TOLERANCE == 10

\* abs(a - b)
abs(n) == IF n < 0 THEN 0 - n ELSE n

\* QVariant -> bool as settings.value(..., type=bool) converts
ToBool(v) ==
  CASE v.t = "bool" -> v.s = "true"
    [] v.t = "str" -> v.s \notin {"", "0", "false"}
    [] OTHER -> v.s # ""

\* QVariant -> str as settings.value(..., type=str) converts
ToStr(v) == v.s

\* What a value becomes once written to an INI file and parsed again:
\* scalars come back as strings, byte arrays stay byte arrays.
IniRead(v) == IF v.t = "bytes" THEN v ELSE VStr(v.s)

\* The whole store after a round trip through its INI file.
IniFile(store) == [k \in DOMAIN store |-> IniRead(store[k])]

EmptyStore == [k \in {} |-> VStr("")]

\* settings.setValue(key, value)
setValue(store, key, v) ==
  [k \in DOMAIN store \cup {key} |-> IF k = key THEN v ELSE store[k]]

\* settings.contains(key)
contains(store, key) == key \in DOMAIN store

\* settings.value(key, default) before the type conversion
value_of(store, key, default) == IF key \in DOMAIN store THEN store[key] ELSE default

\* isChecked() of a check box in terms of its modelled value
isChecked(val) == val = "checked"

\* what setChecked(b) leaves the check box holding
CheckedValue(b) == IF b THEN "checked" ELSE "unchecked"

(***************************************************************************)
(* Program state.                                                          *)
(***************************************************************************)
VARIABLES
  touched,            \* QtSettingsManager._touched
  connected_signals,  \* QtSettingsManager._connected_signals: widget -> signals
  skipped_widgets,    \* QtSettingsManager._skipped_widgets
  handlers,           \* QtSettingsManager._handlers: type -> handler
  settings,           \* QtSettingsManager._settings, the default store
  files,              \* the INI files save_to_file / load_from_file open
  value,              \* the value every widget holds
  slots,              \* Qt's connections of widget signals to _on_widget_changed
  topLevelWidgets,    \* QApplication.topLevelWidgets()
  widgets,            \* the widgets the application has created
  emitted,            \* touched_changed emissions of the last operation
  lastEmit,           \* the last value touched_changed ever carried ("none" before)
  tracked,            \* the controls the last load found eligible for monitoring
  ret,                \* what the last operation returned
  op                  \* the last operation and its arguments

vars == <<touched, connected_signals, skipped_widgets, handlers, settings, files,
          value, slots, topLevelWidgets, widgets, emitted, lastEmit, tracked, ret, op>>

\* parent.centralWidget()
centralWidget(w) ==
  IF w = "mw" /\ "cw" \in widgets THEN "cw"
  ELSE IF w = "mw" /\ "cf" \in widgets THEN "cf"
  ELSE None

\* parent.findChildren(QWidget, FindDirectChildrenOnly)
findChildren(w) == SelectSeq(ChildrenOf(w), LAMBDA c : c \in widgets)

\* Signals a widget can emit that some handler monitors.
SignalNames ==
  {"stateChanged", "textChanged", "toggled", "currentIndexChanged", "valueChanged",
   "currentChanged", "clicked"}

\* A widget signal (a SignalInstance bound to its widget).
Sig(w, name) == [w |-> w, name |-> name]

\* The signals Qt emits when the value of a widget changes.
QtSignalsOnChange(w) ==
  CASE TypeOf(w) \in {"QCheckBox", "MyCheckBox"} -> {"stateChanged", "toggled"}
    [] TypeOf(w) \in {"QPushButton", "QRadioButton"} -> {"toggled"}
    [] TypeOf(w) \in {"QLineEdit", "QTextEdit"} -> {"textChanged"}
    [] TypeOf(w) = "QComboBox" -> {"currentIndexChanged"}
    [] TypeOf(w) \in {"QSpinBox", "QDoubleSpinBox", "QSlider"} -> {"valueChanged"}
    [] TypeOf(w) = "QTabWidget" -> {"currentChanged"}
    [] OTHER -> {}

\* The registry built by __init__.
DefaultHandlers ==
  [t \in {"QMainWindow", "QCheckBox", "QLineEdit", "QPushButton", "QComboBox",
          "QSpinBox", "QDoubleSpinBox", "QRadioButton", "QTextEdit", "QTabWidget",
          "QSlider"} |->
     CASE t = "QMainWindow" -> "DefaultMainWindowHandler"
       [] t = "QCheckBox" -> "DefaultCheckBoxHandler"
       [] t = "QLineEdit" -> "DefaultLineEditHandler"
       [] t = "QPushButton" -> "DefaultPushButtonHandler"
       [] t = "QComboBox" -> "DefaultComboBoxHandler"
       [] t = "QSpinBox" -> "DefaultSpinBoxHandler"
       [] t = "QDoubleSpinBox" -> "DefaultDoubleSpinBoxHandler"
       [] t = "QRadioButton" -> "DefaultRadioButtonHandler"
       [] t = "QTextEdit" -> "DefaultTextEditHandler"
       [] t = "QTabWidget" -> "DefaultTabWidgetHandler"
       [] t = "QSlider" -> "DefaultSliderHandler"]

\* The manager and its environment as one record, threaded through the
\* operations below.  st is the store a traversal works on, blocked the
\* widgets whose signals a QSignalBlocker holds, managed the collect list,
\* diff the boolean a traversal returns, raised an exception in flight,
\* offscreen whether QT_QPA_PLATFORM is "offscreen", compared the widgets
\* whose handler's compare was called, in call order.
Cx ==
  [touched |-> touched, connected_signals |-> connected_signals,
   skipped_widgets |-> skipped_widgets, handlers |-> handlers,
   settings |-> settings, files |-> files, value |-> value, slots |-> slots,
   emitted |-> <<>>, st |-> settings, blocked |-> {}, managed |-> <<>>,
   diff |-> FALSE, raised |-> FALSE, offscreen |-> TRUE, compared |-> <<>>]

(***************************************************************************)
(* Change tracking.                                                        *)
(***************************************************************************)
\* touched_changed.emit(b)
emit(cx, b) == [cx EXCEPT !.emitted = Append(@, b)]

mark_untouched(cx) ==
  IF cx.touched THEN emit([cx EXCEPT !.touched = FALSE], FALSE) ELSE cx

\* Mutant: the notification is not guarded by the current state.
mark_touched_unguarded(cx) == emit([cx EXCEPT !.touched = TRUE], TRUE)

mark_touched(cx) ==
  IF ~cx.touched THEN emit([cx EXCEPT !.touched = TRUE], TRUE) ELSE cx

\* Mutant: only the declared name is looked at, not the skip set.
_should_skip_widget_name_only(cx, w) == objectName(w) = ""

\* Mutant: only the skip set is looked at, not the declared name.
_should_skip_widget_set_only(cx, w) == w \in cx.skipped_widgets

_should_skip_widget(cx, w) == objectName(w) = "" \/ w \in cx.skipped_widgets

\* The slot, run with sender() = w.
_on_widget_changed(cx, w) ==
  IF IsInstance(w, "QWidget") /\ ~_should_skip_widget(cx, w)
  THEN mark_touched(cx) ELSE cx

\* Qt delivers one emission of a widget's signals: the slot runs once per
\* connection of each emitted signal, unless the widget's signals are blocked.
RECURSIVE RunSlots(_, _, _)
RunSlots(cx, w, n) == IF n = 0 THEN cx ELSE RunSlots(_on_widget_changed(cx, w), w, n - 1)

RECURSIVE SumSlots(_, _, _)
SumSlots(sl, w, names) ==
  IF names = {} THEN 0
  ELSE LET n == CHOOSE x \in names : TRUE
       IN sl[<<w, n>>] + SumSlots(sl, w, names \ {n})

\* widget.count() of a combo box (three items) or a tab widget (two tabs)
count(w) ==
  CASE TypeOf(w) = "QComboBox" -> 3
    [] TypeOf(w) = "QTabWidget" -> 2
    [] OTHER -> 0

\* widget.minimum(), widget.maximum() of the ranged controls
Range(w) ==
  CASE TypeOf(w) = "QSpinBox" -> [minimum |-> 0, maximum |-> 100]
    [] TypeOf(w) = "QSlider" -> [minimum |-> 0, maximum |-> 50]
    [] OTHER -> [minimum |-> 0, maximum |-> 10]

minimum(w) == Range(w).minimum

maximum(w) == Range(w).maximum

\* widget.isCheckable(): the window's push button "pb" is a toggle, "nb" is
\* a plain push button (setCheckable(False))
isCheckable(w) == IsCheckKind(w) /\ w # "nb"

\* The signals Qt emits when the user clicks a plain push button.
QtSignalsOnClick(w) == IF TypeOf(w) = "QPushButton" THEN {"clicked"} ELSE {}

\* widget.isEditable(): the window's combo box is not editable
isEditable(w) == FALSE

\* The other auto-exclusive buttons of w's group: the radio buttons with the
\* same parent.
ExclusivePeers(w) ==
  IF TypeOf(w) # "QRadioButton" THEN {}
  ELSE {x \in widgets \ {w} :
          /\ TypeOf(x) = "QRadioButton"
          /\ \E p \in widgets : \E i, j \in 1..Len(ChildrenOf(p)) :
               ChildrenOf(p)[i] = w /\ ChildrenOf(p)[j] = x}

\* Qt stores a new value in widget w and emits its change signals.
StoreValue(cx, w, v) ==
  LET c1 == [cx EXCEPT !.value[w] = v]
  IN IF w \in cx.blocked THEN c1
     ELSE RunSlots(c1, w, SumSlots(cx.slots, w, QtSignalsOnChange(w)))

RECURSIVE UncheckPeers(_, _)
UncheckPeers(cx, peers) ==
  IF peers = {} THEN cx
  ELSE LET x == CHOOSE y \in peers : TRUE
           c1 == IF cx.value[x] = "checked" THEN StoreValue(cx, x, "unchecked") ELSE cx
       IN UncheckPeers(c1, peers \ {x})

\* A widget's setter (setChecked, setText, ...): Qt stores the value and
\* emits the change signals only when the value differs.  The checked button
\* of an auto-exclusive group cannot be unchecked, and checking a button
\* unchecks the others of its group.
SetWidgetValue(cx, w, v) ==
  IF v = cx.value[w] THEN cx
  ELSE IF v = "unchecked" /\ ExclusivePeers(w) # {} THEN cx
  ELSE IF v = "checked" /\ ExclusivePeers(w) # {}
  THEN StoreValue(UncheckPeers(cx, ExclusivePeers(w)), w, v)
  ELSE StoreValue(cx, w, v)

\* QSpinBox.setValue / QSlider.setValue bind the value to the range
QtBound(w, n) ==
  IF n < minimum(w) THEN minimum(w) ELSE IF n > maximum(w) THEN maximum(w) ELSE n

(***************************************************************************)
(* The built-in handlers.                                                  *)
(***************************************************************************)
\* key = widget.objectName() or "MainWindow"; beginGroup(key) prefixes it
MainWindowKey(w, leaf) ==
  (IF objectName(w) = "" THEN "MainWindow" ELSE objectName(w)) \o "/" \o leaf

\* The handlers an application registers itself: InvertedCheckBoxHandler
\* stores the negated check state; FaultyHandler(fail_on) raises in the
\* operation it is built for and is otherwise generic; InvalidHandler is an
\* object with none of the four operations and PartialHandler one that lacks
\* get_signals_to_monitor.  BadSignalHandler and ErrorOnConnectHandler save
\* and load nothing and never report a difference; the first names objects
\* that are no signals, the second a signal whose connect() raises.
CustomHandlers ==
  {"InvertedCheckBoxHandler", "FaultyHandler:compare", "FaultyHandler:load",
   "FaultyHandler:save", "FaultyHandler:get_signals", "InvalidHandler",
   "PartialHandler", "BadSignalHandler", "ErrorOnConnectHandler"}

\* The handlers whose save and load are "pass" and whose compare is False.
PassHandlers == {"BadSignalHandler", "ErrorOnConnectHandler"}

\* FaultyHandler.fail_on
FailOn(h) ==
  CASE h = "FaultyHandler:compare" -> "compare"
    [] h = "FaultyHandler:load" -> "load"
    [] h = "FaultyHandler:save" -> "save"
    [] h = "FaultyHandler:get_signals" -> "get_signals"
    [] OTHER -> None

IsFaulty(h) ==
  h \in {"FaultyHandler:compare", "FaultyHandler:load", "FaultyHandler:save",
         "FaultyHandler:get_signals"}

\* The handler's method for the operation raises (FaultyHandler._maybe_fail).
Raises(h, operation) == IsFaulty(h) /\ FailOn(h) = operation

\* The store value under the control's name, or the given default.
Stored(cx, w, default) == value_of(cx.st, objectName(w), default)

\* f"{key}/currentIndex" of a combo box
IndexKey(w) == objectName(w) \o "/currentIndex"

\* The key the built-in handler of w writes.
StoreKey(w) == IF TypeOf(w) = "QComboBox" THEN IndexKey(w) ELSE objectName(w)

\* Mutant: save writes the checked state of any widget, toggle or not.
HandlerSave_checked_state(h, w, cx) ==
  [cx EXCEPT !.st = setValue(@, objectName(w), VBool(isChecked(cx.value[w])))]

\* handler.save(widget, settings)
HandlerSave(h, w, cx) ==
  CASE h \in {"DefaultCheckBoxHandler", "DefaultRadioButtonHandler"} ->
         [cx EXCEPT !.st = setValue(@, objectName(w), VBool(isChecked(cx.value[w])))]
    [] h = "DefaultPushButtonHandler" ->
         IF isCheckable(w)
         THEN [cx EXCEPT !.st = setValue(@, objectName(w),
                                         VBool(isChecked(cx.value[w])))]
         ELSE cx
    [] h \in {"DefaultLineEditHandler", "DefaultTextEditHandler"} ->
         [cx EXCEPT !.st = setValue(@, objectName(w), VStr(cx.value[w]))]
    [] h = "DefaultComboBoxHandler" ->
         [cx EXCEPT !.st = setValue(@, IndexKey(w), VInt(cx.value[w]))]
    [] h \in {"DefaultSpinBoxHandler", "DefaultTabWidgetHandler",
              "DefaultSliderHandler"} ->
         [cx EXCEPT !.st = setValue(@, objectName(w), VInt(cx.value[w]))]
    [] h = "DefaultDoubleSpinBoxHandler" ->
         [cx EXCEPT !.st = setValue(@, objectName(w), VFloat(cx.value[w]))]
    [] h = "DefaultMainWindowHandler" ->
         [cx EXCEPT !.st = setValue(setValue(@, MainWindowKey(w, "geometry"),
                                             VBytes(cx.value[w])),
                                    MainWindowKey(w, "state"), VBytes("state0"))]
    [] h = "InvertedCheckBoxHandler" ->
         [cx EXCEPT !.st = setValue(@, objectName(w), VBool(~isChecked(cx.value[w])))]
    [] IsFaulty(h) ->
         [cx EXCEPT !.st = setValue(@, objectName(w), VStr("saved"))]
    [] h \in PassHandlers -> cx

\* What handler.load(widget, settings) passes to the setter of a control,
\* or the value the control holds where load calls no setter.
LoadedValue(h, w, cx) ==
  CASE h = "DefaultCheckBoxHandler" ->
         CheckedValue(ToBool(Stored(cx, w, VBool(isChecked(cx.value[w])))))
    [] h = "DefaultPushButtonHandler" ->
         IF isCheckable(w)
         THEN CheckedValue(ToBool(Stored(cx, w, VBool(isChecked(cx.value[w])))))
         ELSE cx.value[w]
    [] h = "DefaultRadioButtonHandler" ->
         IF contains(cx.st, objectName(w))
         THEN CheckedValue(ToBool(cx.st[objectName(w)]))
         ELSE cx.value[w]
    [] h \in {"DefaultLineEditHandler", "DefaultTextEditHandler"} ->
         ToStr(Stored(cx, w, VStr(cx.value[w])))
    [] h = "DefaultComboBoxHandler" ->
         LET index == ToInt(value_of(cx.st, IndexKey(w), VInt(cx.value[w])))
         IN IF 0 <= index /\ index < count(w) THEN Numeral(index)
            ELSE IF count(w) > 0 THEN "0"
            ELSE cx.value[w]
    [] h = "DefaultSpinBoxHandler" ->
         Numeral(QtBound(w, ToInt(Stored(cx, w, VInt(cx.value[w])))))
    [] h = "DefaultDoubleSpinBoxHandler" ->
         ToFloat(Stored(cx, w, VFloat(cx.value[w])))
    [] h = "DefaultTabWidgetHandler" ->
         LET index == ToInt(Stored(cx, w, VInt(cx.value[w])))
         IN IF 0 <= index /\ index < count(w) THEN Numeral(index) ELSE cx.value[w]
    [] h = "DefaultSliderHandler" ->
         LET v == ToInt(Stored(cx, w, VInt(cx.value[w])))
         IN IF minimum(w) <= v /\ v <= maximum(w)
            THEN Numeral(QtBound(w, v))
            ELSE Numeral(QtBound(w, IntOf(cx.value[w])))
    [] h = "InvertedCheckBoxHandler" ->
         CheckedValue(~ToBool(Stored(cx, w, VBool(~isChecked(cx.value[w])))))
    [] IsFaulty(h) -> cx.value[w]
    [] h \in PassHandlers -> cx.value[w]

\* What DefaultSliderHandler.load logs: a warning for a loaded value outside
\* the slider's range.
SliderLoadLog(w, cx) ==
  LET v == ToInt(Stored(cx, w, VInt(cx.value[w])))
  IN IF minimum(w) <= v /\ v <= maximum(w) THEN None ELSE "warning"

\* Mutant: load leaves the widget as it is.
HandlerLoad_ignores_store(h, w, cx) == cx

\* handler.load(widget, settings): the main window restores its geometry,
\* a control gets the loaded value through its setter
HandlerLoad(h, w, cx) ==
  IF h = "DefaultMainWindowHandler"
  THEN IF contains(cx.st, MainWindowKey(w, "geometry"))
          /\ cx.st[MainWindowKey(w, "geometry")].t = "bytes"
       THEN [cx EXCEPT !.value[w] = cx.st[MainWindowKey(w, "geometry")].s]
       ELSE cx
  ELSE SetWidgetValue(cx, w, LoadedValue(h, w, cx))

\* Mutant: a control with no stored value counts as changed.
HandlerCompare_no_baseline(h, w, cx) == ~contains(cx.st, StoreKey(w))

\* handler.compare(widget, settings): TRUE when the widget differs from the store
HandlerCompare(h, w, cx) ==
  CASE h = "DefaultCheckBoxHandler" ->
         isChecked(cx.value[w]) # ToBool(Stored(cx, w, VBool(isChecked(cx.value[w]))))
    [] h = "DefaultPushButtonHandler" ->
         IF ~isCheckable(w) THEN FALSE
         ELSE isChecked(cx.value[w])
                # ToBool(Stored(cx, w, VBool(isChecked(cx.value[w]))))
    [] h = "DefaultRadioButtonHandler" ->
         IF contains(cx.st, objectName(w))
         THEN isChecked(cx.value[w]) # ToBool(cx.st[objectName(w)])
         ELSE isChecked(cx.value[w])
    [] h \in {"DefaultLineEditHandler", "DefaultTextEditHandler"} ->
         cx.value[w] # ToStr(Stored(cx, w, VStr(cx.value[w])))
    [] h = "DefaultComboBoxHandler" ->
         IntOf(cx.value[w]) # ToInt(value_of(cx.st, IndexKey(w), VInt(cx.value[w])))
    [] h \in {"DefaultSpinBoxHandler", "DefaultTabWidgetHandler",
              "DefaultSliderHandler"} ->
         IntOf(cx.value[w]) # ToInt(Stored(cx, w, VInt(cx.value[w])))
    [] h = "DefaultDoubleSpinBoxHandler" ->
         abs(FloatUnits(cx.value[w])
               - FloatUnits(ToFloat(Stored(cx, w, VFloat(cx.value[w])))))
           > FLOAT_TOLERANCE
    [] h = "DefaultMainWindowHandler" ->
         IF cx.offscreen THEN FALSE
         ELSE \/ VBytes(cx.value[w])
                   # value_of(cx.st, MainWindowKey(w, "geometry"), VBytes(""))
              \/ VBytes("state0")
                   # value_of(cx.st, MainWindowKey(w, "state"), VBytes(""))
    [] h = "InvertedCheckBoxHandler" ->
         isChecked(cx.value[w]) = ToBool(Stored(cx, w, VBool(~isChecked(cx.value[w]))))
    [] IsFaulty(h) -> FALSE
    [] h \in PassHandlers -> FALSE

\* An object a handler names that is not a SignalInstance (123, "not a signal").
NotASignal(x) == [w |-> None, name |-> x]

\* handler.get_signals_to_monitor(widget)
HandlerSignals(h, w) ==
  CASE h \in {"DefaultCheckBoxHandler", "InvertedCheckBoxHandler"} ->
         <<Sig(w, "stateChanged")>>
    [] h \in {"DefaultLineEditHandler", "DefaultTextEditHandler"} ->
         <<Sig(w, "textChanged")>>
    [] h = "DefaultPushButtonHandler" ->
         IF isCheckable(w) THEN <<Sig(w, "toggled")>> ELSE <<>>
    [] h = "DefaultRadioButtonHandler" -> <<Sig(w, "toggled")>>
    [] h = "DefaultComboBoxHandler" -> <<Sig(w, "currentIndexChanged")>>
    [] h \in {"DefaultSpinBoxHandler", "DefaultDoubleSpinBoxHandler",
              "DefaultSliderHandler"} -> <<Sig(w, "valueChanged")>>
    [] h = "DefaultTabWidgetHandler" -> <<Sig(w, "currentChanged")>>
    [] h = "DefaultMainWindowHandler" -> <<>>
    [] IsFaulty(h) ->
         IF IsInstance(w, "QCheckBox") THEN <<Sig(w, "stateChanged")>> ELSE <<>>
    [] h = "BadSignalHandler" -> <<NotASignal("123"), NotASignal("not a signal")>>
    [] h = "ErrorOnConnectHandler" -> <<Sig(w, "mockSignalWithError")>>

(***************************************************************************)
(* Handler resolution and signal subscriptions.                            *)
(***************************************************************************)
\* self._handlers.get(type(parent))
ExactHandler(cx, w) ==
  IF TypeOf(w) \in DOMAIN cx.handlers THEN cx.handlers[TypeOf(w)] ELSE None

RECURSIVE MroLookup(_, _, _)
MroLookup(hs, mro, i) ==
  IF i > Len(mro) THEN None
  ELSE IF mro[i] \in DOMAIN hs THEN hs[mro[i]] ELSE MroLookup(hs, mro, i + 1)

RECURSIVE MroLookupFromBase(_, _, _)
MroLookupFromBase(hs, mro, i) ==
  IF i < 2 THEN None
  ELSE IF mro[i] \in DOMAIN hs THEN hs[mro[i]] ELSE MroLookupFromBase(hs, mro, i - 1)

\* Mutant: the ancestor chain is walked from the least derived class.
_get_handler_least_derived(cx, w) ==
  IF TypeOf(w) \in DOMAIN cx.handlers THEN cx.handlers[TypeOf(w)]
  ELSE MroLookupFromBase(cx.handlers, Mro(TypeOf(w)), Len(Mro(TypeOf(w))))

_get_handler(cx, w) ==
  IF TypeOf(w) \in DOMAIN cx.handlers THEN cx.handlers[TypeOf(w)]
  ELSE MroLookup(cx.handlers, Mro(TypeOf(w)), 2)

\* signal.connect(self._on_widget_changed)
QtConnect(sl, sig) == [sl EXCEPT ![<<sig.w, sig.name>>] = @ + 1]

\* signal.disconnect(self._on_widget_changed); disconnecting a signal that is
\* not connected raises, which the caller swallows
QtDisconnect(sl, sig) ==
  IF sl[<<sig.w, sig.name>>] > 0 THEN [sl EXCEPT ![<<sig.w, sig.name>>] = @ - 1] ELSE sl

RECURSIVE ConnectEach(_, _, _)
ConnectEach(sl, sigs, i) ==
  IF i > Len(sigs) THEN sl ELSE ConnectEach(QtConnect(sl, sigs[i]), sigs, i + 1)

RECURSIVE DisconnectEach(_, _, _)
DisconnectEach(sl, sigs, i) ==
  IF i > Len(sigs) THEN sl ELSE DisconnectEach(QtDisconnect(sl, sigs[i]), sigs, i + 1)

\* isinstance(signal, SignalInstance) and hasattr(signal, "connect")
IsSignalInstance(signal) == signal.w # None

\* signal.connect(self._on_widget_changed) raises
ConnectRaises(signal) == signal.name = "mockSignalWithError"

\* connected_list: the signals of signals_to_connect that got connected
ConnectedList(signals_to_connect) ==
  SelectSeq(signals_to_connect,
            LAMBDA signal : IsSignalInstance(signal) /\ ~ConnectRaises(signal))

\* Mutant: the control is recorded with whatever the handler named.
_connect_widget_signals_unfiltered(cx, w, h) ==
  IF w \in DOMAIN cx.connected_signals THEN cx
  ELSE IF _should_skip_widget(cx, w) THEN cx
  ELSE IF Raises(h, "get_signals") THEN cx
  ELSE LET signals_to_connect == HandlerSignals(h, w)
       IN IF signals_to_connect = <<>> THEN cx
          ELSE [cx EXCEPT
                  !.slots = ConnectEach(@, ConnectedList(signals_to_connect), 1),
                  !.connected_signals =
                     [x \in DOMAIN @ \cup {w} |->
                        IF x = w THEN signals_to_connect ELSE @[x]]]

\* Mutant: a control already in the table is connected again.
_connect_widget_signals_again(cx, w, h) ==
  IF _should_skip_widget(cx, w) THEN cx
  ELSE IF Raises(h, "get_signals") THEN cx
  ELSE LET signals_to_connect == HandlerSignals(h, w)
       IN IF signals_to_connect = <<>> THEN cx
          ELSE [cx EXCEPT
                  !.slots = ConnectEach(@, signals_to_connect, 1),
                  !.connected_signals =
                     [x \in DOMAIN @ \cup {w} |->
                        IF x = w THEN signals_to_connect ELSE @[x]]]

_connect_widget_signals(cx, w, h) ==
  IF w \in DOMAIN cx.connected_signals THEN cx
  ELSE IF _should_skip_widget(cx, w) THEN cx
  ELSE IF Raises(h, "get_signals") THEN cx
  ELSE LET connected_list == ConnectedList(HandlerSignals(h, w))
       IN IF connected_list = <<>> THEN cx
          ELSE [cx EXCEPT
                  !.slots = ConnectEach(@, connected_list, 1),
                  !.connected_signals =
                     [x \in DOMAIN @ \cup {w} |->
                        IF x = w THEN connected_list ELSE @[x]]]

_disconnect_widget_signals(cx, w) ==
  IF w \in DOMAIN cx.connected_signals
  THEN [cx EXCEPT
          !.slots = DisconnectEach(@, cx.connected_signals[w], 1),
          !.connected_signals = [x \in DOMAIN @ \ {w} |-> @[x]]]
  ELSE cx

RECURSIVE DisconnectWidgets(_, _)
DisconnectWidgets(cx, ws) ==
  IF ws = {} THEN cx
  ELSE LET w == CHOOSE x \in ws : TRUE
       IN DisconnectWidgets(_disconnect_widget_signals(cx, w), ws \ {w})

_disconnect_all_widget_signals(cx) ==
  [DisconnectWidgets(cx, DOMAIN cx.connected_signals)
     EXCEPT !.connected_signals = [x \in {} |-> <<>>]]

(***************************************************************************)
(* The widget tree walker.                                                 *)
(***************************************************************************)
\* Mutant: no except clause, the handler's exception leaves the traversal.
ApplyOperation_uncaught(cx, w, h, operation) ==
  IF Raises(h, operation) THEN [cx EXCEPT !.raised = TRUE]
  ELSE CASE operation = "save" -> HandlerSave(h, w, cx)
         [] operation = "load" -> HandlerLoad(h, w, cx)
         [] operation = "connect" -> _connect_widget_signals(cx, w, h)
         [] operation = "compare" ->
              IF HandlerCompare(h, w, cx) THEN [cx EXCEPT !.diff = TRUE] ELSE cx
         [] operation = "collect" -> [cx EXCEPT !.managed = Append(@, w)]

\* Mutant: the exception of a handler ends the traversal.
ApplyOperation_aborting(cx, w, h, operation) ==
  IF Raises(h, operation) THEN [cx EXCEPT !.diff = TRUE]
  ELSE CASE operation = "save" -> HandlerSave(h, w, cx)
         [] operation = "load" -> HandlerLoad(h, w, cx)
         [] operation = "connect" -> _connect_widget_signals(cx, w, h)
         [] operation = "compare" ->
              IF HandlerCompare(h, w, cx) THEN [cx EXCEPT !.diff = TRUE] ELSE cx
         [] operation = "collect" -> [cx EXCEPT !.managed = Append(@, w)]

\* The try block of _process_widget_and_recurse: apply the operation to one
\* node with its handler.  diff = TRUE is the early "return True" of compare.
ApplyOperation(cx, w, h, operation) ==
  IF Raises(h, operation)
  THEN (IF operation = "compare"
        THEN [cx EXCEPT !.diff = TRUE, !.compared = Append(@, w)]
        ELSE cx)
  ELSE CASE operation = "save" -> HandlerSave(h, w, cx)
         [] operation = "load" -> HandlerLoad(h, w, cx)
         [] operation = "connect" -> _connect_widget_signals(cx, w, h)
         [] operation = "compare" ->
              [cx EXCEPT !.diff = HandlerCompare(h, w, cx),
                         !.compared = Append(@, w)]
         [] operation = "collect" -> [cx EXCEPT !.managed = Append(@, w)]

\* Mutant: the children of every visited node are visited.
should_recurse_always(cx, parent) == TRUE

\* is_known_container or (exact_handler is None)
should_recurse(cx, parent) ==
  \/ IsInstance(parent, "QMainWindow") \/ IsInstance(parent, "QGroupBox")
  \/ ExactHandler(cx, parent) = None

RECURSIVE _process_widget_and_recurse(_, _, _)
RECURSIVE ProcessChildren(_, _, _, _)

\* The handler lookup and the try block for one node.
ProcessWidget(cx, parent, operation) ==
  LET exact_handler == ExactHandler(cx, parent)
      handler_to_use ==
        IF exact_handler # None THEN exact_handler ELSE _get_handler(cx, parent)
  IN IF handler_to_use # None
     THEN ApplyOperation(cx, parent, handler_to_use, operation)
     ELSE cx

\* Mutant: the direct children of a main window are enumerated like those
\* of any other node.
Recurse_raw_children(cx, c1, parent, operation) ==
  IF c1.diff THEN c1
  ELSE IF ~should_recurse(cx, parent) THEN c1
  ELSE ProcessChildren(c1, findChildren(parent), 1, operation)

\* What follows the try block, c1 being the outcome of the handler on the
\* node: the early return of compare, then the recursion.
Recurse(cx, c1, parent, operation) ==
  IF c1.diff THEN c1
  ELSE IF ~should_recurse(cx, parent) THEN c1
  ELSE IF IsInstance(parent, "QMainWindow") /\ centralWidget(parent) # None
  THEN _process_widget_and_recurse(c1, centralWidget(parent), operation)
  ELSE ProcessChildren(c1, findChildren(parent), 1, operation)

_process_widget_and_recurse(cx, parent, operation) ==
  IF _should_skip_widget(cx, parent) THEN [cx EXCEPT !.diff = FALSE]
  ELSE Recurse(cx, ProcessWidget(cx, parent, operation), parent, operation)

\* Mutant: the loop goes on after a child that returned True.
NextChild_continue(c1, children, i, operation) ==
  ProcessChildren(c1, children, i + 1, operation)

\* One child of the for loop: its outcome c1 ends the loop when it is True.
NextChild(c1, children, i, operation) ==
  IF c1.diff THEN c1 ELSE ProcessChildren(c1, children, i + 1, operation)

\* the for loop over the direct children, left on the first child that
\* returns True
ProcessChildren(cx, children, i, operation) ==
  IF i > Len(children) THEN [cx EXCEPT !.diff = FALSE]
  ELSE NextChild(_process_widget_and_recurse(cx, children[i], operation),
                 children, i, operation)

RECURSIVE FirstMainWindow(_, _)
FirstMainWindow(tops, i) ==
  IF i > Len(tops) THEN None
  ELSE IF IsInstance(tops[i], "QMainWindow") THEN tops[i]
  ELSE FirstMainWindow(tops, i + 1)

_find_main_window == FirstMainWindow(topLevelWidgets, 1)

(***************************************************************************)
(* The persistence facade.                                                 *)
(***************************************************************************)
\* Mutant: the reset to clean happens only when a main window was saved.
_perform_save_reset_in_branch(cx) ==
  LET main_window == _find_main_window
  IN IF main_window # None
     THEN mark_untouched(_process_widget_and_recurse(cx, main_window, "save"))
     ELSE cx

\* Mutant: a save also runs the connect traversal.
_perform_save_and_connect(cx) ==
  LET main_window == _find_main_window
      c1 == IF main_window # None
            THEN _process_widget_and_recurse(
                   _process_widget_and_recurse(cx, main_window, "save"),
                   main_window, "connect")
            ELSE cx
  IN mark_untouched(c1)

\* cx.st is the store the caller opened
_perform_save(cx) ==
  LET main_window == _find_main_window
      c1 == IF main_window # None
            THEN _process_widget_and_recurse(cx, main_window, "save")
            ELSE cx
  IN mark_untouched(c1)

\* Mutant: the subscriptions of the previous load are not torn down first.
_perform_load_keep_subscriptions(cx) ==
  LET main_window == _find_main_window
  IN IF main_window # None
     THEN LET c1 == _process_widget_and_recurse(
                      [cx EXCEPT !.blocked = {main_window}], main_window, "load")
              c2 == _process_widget_and_recurse(
                      [c1 EXCEPT !.blocked = {}], main_window, "connect")
          IN mark_untouched(c2)
     ELSE mark_untouched(cx)

\* Mutant: the connect traversal after the load is missing.
_perform_load_no_connect(cx) ==
  LET c0 == _disconnect_all_widget_signals(cx)
      main_window == _find_main_window
  IN IF main_window # None
     THEN mark_untouched(_process_widget_and_recurse(
                           [c0 EXCEPT !.blocked = {main_window}], main_window, "load"))
     ELSE mark_untouched(c0)

_perform_load(cx) ==
  LET c0 == _disconnect_all_widget_signals(cx)
      main_window == _find_main_window
  IN IF main_window # None
     THEN LET c1 == _process_widget_and_recurse(
                      [c0 EXCEPT !.blocked = {main_window}], main_window, "load")
              c2 == _process_widget_and_recurse(
                      [c1 EXCEPT !.blocked = {}], main_window, "connect")
          IN mark_untouched(c2)
     ELSE mark_untouched(c0)

\* Mutant: what the traversal wrote never reaches the default store.
save_state_unwritten(cx) == _perform_save([cx EXCEPT !.st = cx.settings])

save_state(cx) ==
  LET r == _perform_save([cx EXCEPT !.st = cx.settings])
  IN [r EXCEPT !.settings = r.st]

load_state(cx) == _perform_load([cx EXCEPT !.st = cx.settings])

\* QSettings(filepath, IniFormat): the keys of the file, or nothing when the
\* file cannot be accessed
OpenFile(cx, filepath) ==
  IF cx.files[filepath].status = "NoError" THEN cx.files[filepath].data ELSE EmptyStore

\* settings.sync() of a store opened on a file
SyncFile(cx, filepath) ==
  IF cx.files[filepath].status = "NoError"
  THEN [cx EXCEPT !.files[filepath].data = IniFile(cx.st)]
  ELSE cx

\* Mutant: the state goes to the manager's default store, not to the file.
save_to_file_default_store(cx, filepath) ==
  LET r == _perform_save([cx EXCEPT !.st = cx.settings])
  IN [r EXCEPT !.settings = r.st]

save_to_file(cx, filepath) ==
  SyncFile(_perform_save([cx EXCEPT !.st = OpenFile(cx, filepath)]), filepath)

\* Mutant: a file that cannot be read leaves the manager as it is.
load_from_file_untouched_manager(cx, filepath) ==
  IF cx.files[filepath].status # "NoError"
  THEN cx
  ELSE _perform_load([cx EXCEPT !.st = OpenFile(cx, filepath)])

load_from_file(cx, filepath) ==
  IF cx.files[filepath].status # "NoError"
  THEN mark_untouched(_disconnect_all_widget_signals(cx))
  ELSE _perform_load([cx EXCEPT !.st = OpenFile(cx, filepath)])

\* The operations the SettingsHandler protocol names.
ProtocolMethods == {"save", "load", "compare", "get_signals_to_monitor"}

\* The methods a handler object has.
MethodsOf(h) ==
  CASE h = "InvalidHandler" -> {}
    [] h = "PartialHandler" -> {"save", "load", "compare"}
    [] OTHER -> ProtocolMethods

\* isinstance(handler_instance, SettingsHandler) for the runtime-checkable
\* protocol: every protocol method is present
ConformsToProtocol(h) == ProtocolMethods \subseteq MethodsOf(h)

\* Mutant: a type that already has a handler keeps it.
register_handler_keep_first(cx, widget_type, handler_instance) ==
  IF ~ConformsToProtocol(handler_instance) THEN [cx EXCEPT !.raised = TRUE]
  ELSE IF widget_type \in DOMAIN cx.handlers THEN cx
  ELSE [cx EXCEPT !.handlers =
          [t \in DOMAIN @ \cup {widget_type} |->
             IF t = widget_type THEN handler_instance ELSE @[t]]]

\* Mutant: the handler object is stored without the protocol check.
register_handler_unchecked(cx, widget_type, handler_instance) ==
  [cx EXCEPT !.handlers =
     [t \in DOMAIN @ \cup {widget_type} |->
        IF t = widget_type THEN handler_instance ELSE @[t]]]

\* raised = TRUE is the TypeError
register_handler(cx, widget_type, handler_instance) ==
  IF ~ConformsToProtocol(handler_instance) THEN [cx EXCEPT !.raised = TRUE]
  ELSE [cx EXCEPT !.handlers =
          [t \in DOMAIN @ \cup {widget_type} |->
             IF t = widget_type THEN handler_instance ELSE @[t]]]

\* The payloads handed to save_custom_data; "lambda" cannot be pickled.
Payloads == {"d1", "lambda"}

CustomKeys == {"k1"}

\* The payloads and keys of an application that keeps two custom entries.
MorePayloads == Payloads \cup {"d2"}

MoreCustomKeys == CustomKeys \cup {"k2"}

Picklable(data) == data # "lambda"

\* pickle.dumps(data)
PickleDumps(data) == "pickle:" \o data

\* pickle.loads(bytes); None when the bytes are no pickle
PickleLoads(bytes) ==
  IF \E d \in MorePayloads : Picklable(d) /\ PickleDumps(d) = bytes
  THEN CHOOSE d \in MorePayloads : Picklable(d) /\ PickleDumps(d) = bytes
  ELSE None

\* Mutant: every payload goes under one key.
_save_custom_data_impl_one_key(store, key, data) ==
  IF Picklable(data)
  THEN setValue(store, "customData/data", VBytes(PickleDumps(data)))
  ELSE store

_save_custom_data_impl(store, key, data) ==
  IF Picklable(data)
  THEN setValue(store, "customData/" \o key, VBytes(PickleDumps(data)))
  ELSE store

_load_custom_data_impl(store, key) ==
  IF contains(store, "customData/" \o key)
  THEN LET v == store["customData/" \o key]
       IN IF v.s # "" THEN PickleLoads(v.s) ELSE None
  ELSE None

\* Mutant: a custom-data write does not mark the manager touched.
save_custom_data_silent(cx, key, data) ==
  [cx EXCEPT !.settings = _save_custom_data_impl(@, key, data)]

save_custom_data(cx, key, data) ==
  mark_touched([cx EXCEPT !.settings = _save_custom_data_impl(@, key, data)])

load_custom_data(cx, key) == _load_custom_data_impl(cx.settings, key)

skip_widget(cx, w) ==
  IF w \notin cx.skipped_widgets
  THEN _disconnect_widget_signals([cx EXCEPT !.skipped_widgets = @ \cup {w}], w)
  ELSE cx

\* Mutant: unskip only removes the widget from the skip set.
unskip_widget_no_connect(cx, w) ==
  IF w \in cx.skipped_widgets
  THEN [cx EXCEPT !.skipped_widgets = @ \ {w}]
  ELSE cx

unskip_widget(cx, w) ==
  IF w \in cx.skipped_widgets
  THEN LET c1 == [cx EXCEPT !.skipped_widgets = @ \ {w}]
       IN IF ~_should_skip_widget(c1, w)
          THEN LET handler == _get_handler(c1, w)
               IN IF handler # None THEN _connect_widget_signals(c1, w, handler)
                  ELSE c1
          ELSE c1
  ELSE cx

\* Mutant: the answer is the touched flag.
has_unsaved_changes_is_touched(cx) == cx.touched

\* Mutant: only a touched manager is compared with the store.
has_unsaved_changes_when_touched(cx) ==
  LET main_window == _find_main_window
  IN IF main_window = None \/ ~cx.touched THEN FALSE
     ELSE _process_widget_and_recurse([cx EXCEPT !.st = cx.settings],
                                      main_window, "compare").diff

\* source = None: compare against the default store
has_unsaved_changes(cx) ==
  LET main_window == _find_main_window
  IN IF main_window = None THEN FALSE
     ELSE _process_widget_and_recurse([cx EXCEPT !.st = cx.settings],
                                      main_window, "compare").diff

has_unsaved_changes_file_unchecked(cx, filepath) ==
  LET main_window == _find_main_window
  IN IF main_window = None THEN FALSE
     ELSE _process_widget_and_recurse([cx EXCEPT !.st = OpenFile(cx, filepath)],
                                      main_window, "compare").diff

\* source = a file path
has_unsaved_changes_file(cx, filepath) ==
  IF cx.files[filepath].status # "NoError" THEN FALSE
  ELSE LET main_window == _find_main_window
       IN IF main_window = None THEN FALSE
          ELSE _process_widget_and_recurse([cx EXCEPT !.st = OpenFile(cx, filepath)],
                                           main_window, "compare").diff

get_managed_widgets(cx) ==
  LET main_window == _find_main_window
  IN IF main_window # None
     THEN _process_widget_and_recurse(cx, main_window, "collect").managed
     ELSE <<>>

(***************************************************************************)
(* The state machine: one action per public operation or user event.       *)
(***************************************************************************)
\* The files the model opens: "A" is a healthy INI file, "bad" reports
\* AccessError.
Paths == {"A", "bad"}

\* The widgets the application passes to skip_widget / unskip_widget.
Skippable == {"cw", "cb", "nn"}

BoolStr(b) == IF b THEN "true" ELSE "false"

NoRet == [changed |-> FALSE, managed |-> <<>>, data |-> None, raised |-> None]

Operation(name, w, arg) == [name |-> name, w |-> w, arg |-> arg]

\* The controls a load makes eligible for monitoring: named, not skipped,
\* reached by the traversal from the main window, with a handler that names
\* at least one signal.
Eligible(cx) ==
  LET managed == get_managed_widgets(cx)
  IN {w \in widgets :
        /\ \E i \in 1..Len(managed) : managed[i] = w
        /\ _get_handler(cx, w) # None
        /\ HandlerSignals(_get_handler(cx, w), w) # <<>>}

\* Store the outcome r of operation o.
Commit(r, o) ==
  /\ touched' = r.touched
  /\ connected_signals' = r.connected_signals
  /\ skipped_widgets' = r.skipped_widgets
  /\ handlers' = r.handlers
  /\ settings' = r.settings
  /\ files' = r.files
  /\ value' = r.value
  /\ slots' = r.slots
  /\ emitted' = r.emitted
  /\ lastEmit' = IF r.emitted = <<>> THEN lastEmit
                 ELSE BoolStr(r.emitted[Len(r.emitted)])
  /\ tracked' = IF o.name \in {"load_state", "load_from_file"}
                THEN (IF o.arg = "refused" THEN {} ELSE Eligible(r))
                ELSE tracked
  /\ op' = o
  /\ UNCHANGED <<topLevelWidgets, widgets>>

\* The state after QtSettingsManager.__init__, in an application that has
\* built the widgets ws.
InitWithFiles(ws, store, paths) ==
  /\ widgets = ws
  /\ touched = FALSE
  /\ connected_signals = [x \in {} |-> <<>>]
  /\ skipped_widgets = {}
  /\ handlers = DefaultHandlers
  /\ settings = store
  /\ files = [p \in paths |->
                [status |-> IF p = "bad" THEN "AccessError" ELSE "NoError",
                 data |-> EmptyStore]]
  /\ value = [w \in ws |-> InitialValue(w)]
  /\ slots = [x \in ws \X SignalNames |-> 0]
  /\ topLevelWidgets \in {<<>>, <<"mw">>}
  /\ emitted = <<>>
  /\ lastEmit = "none"
  /\ tracked = {}
  /\ ret = NoRet
  /\ op = Operation("init", None, None)

\* The files the application names are those of Paths.
InitWithStore(ws, store) == InitWithFiles(ws, store, Paths)

\* A fresh store: the application has never saved anything.
InitWith(ws) == InitWithStore(ws, EmptyStore)

\* A window with one named check box in its central widget.
Init == InitWith({"mw", "cw", "cb"})

\* The same window with an unnamed check box beside the named one.
InitUnnamed == InitWith({"mw", "cw", "cb", "nn"})

\* The same window with a named line edit beside the check box.
InitSiblings == InitWith({"mw", "cw", "cb", "le"})

\* A window whose central widget is a frame holding a tab widget with a
\* check box on its page and a group box with a check box of an application
\* subclass.
InitComposite == InitWith({"mw", "cf", "tw", "pg", "pcb", "gb", "mcb"})

\* A window whose central widget is a frame holding a check box and a group
\* box with a check box of an application subclass.
InitRegistry == InitWith({"mw", "cf", "cb", "gb", "mcb"})

\* The controls of the test window, one kind at a time; the radio buttons
\* come as the pair in their group box, and one window has two check boxes
\* of the same name.
KindScenes ==
  {{"cb"}, {"le"}, {"pb"}, {"co"}, {"sp"}, {"ds"}, {"gb", "r1", "r2"}, {"tx"},
   {"tw"}, {"sl"}, {"cb", "dup"}}

\* What the store can hold for control w when the application starts: values
\* an earlier run saved (read back from the INI file as strings) and values
\* written by other means, some of them outside what the control accepts.
StoredBefore(w) ==
  CASE TypeOf(w) \in {"QCheckBox", "QPushButton", "QRadioButton"} ->
         {VBool(TRUE), VBool(FALSE)}
    [] TypeOf(w) \in {"QLineEdit", "QTextEdit"} -> {VStr("A"), VStr("B")}
    [] TypeOf(w) = "QComboBox" -> {VStr("1"), VInt("-1"), VInt("999")}
    [] TypeOf(w) = "QSpinBox" -> {VStr("0"), VInt("999")}
    [] TypeOf(w) = "QDoubleSpinBox" -> {VStr("4.56")}
    [] TypeOf(w) = "QTabWidget" -> {VStr("1"), VInt("-1"), VInt("999")}
    [] TypeOf(w) = "QSlider" -> {VStr("0"), VInt("999")}
    [] OTHER -> {}

\* The stores a scene can start with: a fresh one, or one with a value for
\* each of its controls.
StoresBefore(scene) ==
  LET controls == {w \in scene : StoredBefore(w) # {}}
      choices == {g \in [controls -> UNION {StoredBefore(w) : w \in controls}] :
                    \A w \in controls : g[w] \in StoredBefore(w)}
  IN {EmptyStore} \cup
     {[k \in {StoreKey(w) : w \in controls} |->
          g[CHOOSE w \in controls : StoreKey(w) = k]] : g \in choices}

\* A window with the controls of one kind in its central widget, started on
\* any of the stores above.
InitKinds ==
  \E scene \in KindScenes : \E store \in StoresBefore(scene) :
    InitWithStore({"mw", "cw"} \cup scene, store)

MarkTouched ==
  /\ ret' = NoRet
  /\ Commit(mark_touched(Cx), Operation("mark_touched", None, None))

MarkUntouched ==
  /\ ret' = NoRet
  /\ Commit(mark_untouched(Cx), Operation("mark_untouched", None, None))

\* The user gives widget w another value.
WidgetChange ==
  \E w \in widgets : \E v \in ValuesOf(w) :
    /\ v # value[w]
    /\ SetWidgetValue(Cx, w, v).value # value
    /\ ret' = NoRet
    /\ Commit(SetWidgetValue(Cx, w, v), Operation("change", w, v))

SaveState ==
  /\ ret' = NoRet
  /\ Commit(save_state(Cx), Operation("save_state", None, None))

\* What a load did: "refused" for a file with an error status, else whether
\* it left some widget with another value.
Applied(r) == IF r.value # value THEN "applied" ELSE "same"

LoadState ==
  LET r == load_state(Cx)
  IN /\ ret' = NoRet
     /\ Commit(r, Operation("load_state", None, Applied(r)))

SaveToFile ==
  \E p \in DOMAIN files :
    /\ ret' = NoRet
    /\ Commit(save_to_file(Cx, p), Operation("save_to_file", p, None))

LoadFromFile ==
  \E p \in DOMAIN files :
    LET r == load_from_file(Cx, p)
    IN /\ ret' = NoRet
       /\ Commit(r, Operation("load_from_file", p,
                              IF files[p].status # "NoError" THEN "refused"
                              ELSE Applied(r)))

SaveCustomData ==
  \E k \in CustomKeys : \E d \in Payloads :
    /\ ret' = NoRet
    /\ Commit(save_custom_data(Cx, k, d), Operation("save_custom_data", k, d))

LoadCustomData ==
  \E k \in CustomKeys :
    /\ ret' = [NoRet EXCEPT !.data = load_custom_data(Cx, k)]
    /\ Commit(Cx, Operation("load_custom_data", k, None))

SkipWidget ==
  \E w \in Skippable \cap widgets :
    /\ ret' = NoRet
    /\ Commit(skip_widget(Cx, w), Operation("skip_widget", w, None))

UnskipWidget ==
  \E w \in Skippable \cap widgets :
    /\ ret' = NoRet
    /\ Commit(unskip_widget(Cx, w),
              Operation("unskip_widget", w,
                        IF w \in skipped_widgets THEN "was_skipped" ELSE "not_skipped"))

\* offscreen: whether QT_QPA_PLATFORM is "offscreen" at the call
HasUnsavedChanges ==
  \E offscreen \in BOOLEAN :
    /\ ret' = [NoRet EXCEPT
                 !.changed = has_unsaved_changes([Cx EXCEPT !.offscreen = offscreen])]
    /\ Commit(Cx, Operation("has_unsaved_changes", None, BoolStr(offscreen)))

HasUnsavedChangesFile ==
  \E p \in DOMAIN files : \E offscreen \in BOOLEAN :
    /\ ret' = [NoRet EXCEPT
                 !.changed =
                    has_unsaved_changes_file([Cx EXCEPT !.offscreen = offscreen], p)]
    /\ Commit(Cx, Operation("has_unsaved_changes_file", p, BoolStr(offscreen)))

GetManagedWidgets ==
  /\ ret' = [NoRet EXCEPT !.managed = get_managed_widgets(Cx)]
  /\ Commit(Cx, Operation("get_managed_widgets", None, None))

\* The registrations an application makes for its controls: (widget type,
\* handler object).
Registrations ==
  {<<"QCheckBox", "InvertedCheckBoxHandler">>,
   <<"QCheckBox", "FaultyHandler:compare">>,
   <<"QWidget", "FaultyHandler:load">>,
   <<"QWidget", "InvalidHandler">>,
   <<"QCheckBox", "PartialHandler">>}

\* The registrations an application makes for its containers.
ContainerRegistrations ==
  {<<"QWidget", "FaultyHandler:load">>,
   <<"QGroupBox", "FaultyHandler:load">>,
   <<"QTabWidget", "FaultyHandler:load">>}

RegisterHandler ==
  \E reg \in Registrations :
    LET r == register_handler(Cx, reg[1], reg[2])
    IN /\ ret' = [NoRet EXCEPT !.raised = IF r.raised THEN "TypeError" ELSE None]
       /\ Commit(r, Operation("register_handler", reg[1], reg[2]))

\* The faulty handlers an application registers for its check boxes.
FaultRegistrations ==
  {<<"QCheckBox", "FaultyHandler:save">>,
   <<"QCheckBox", "FaultyHandler:load">>,
   <<"QCheckBox", "FaultyHandler:get_signals">>}

RegisterFaultyHandler ==
  \E reg \in FaultRegistrations :
    LET r == register_handler(Cx, reg[1], reg[2])
    IN /\ ret' = [NoRet EXCEPT !.raised = IF r.raised THEN "TypeError" ELSE None]
       /\ Commit(r, Operation("register_handler", reg[1], reg[2]))

RegisterContainerHandler ==
  \E reg \in ContainerRegistrations :
    LET r == register_handler(Cx, reg[1], reg[2])
    IN /\ ret' = [NoRet EXCEPT !.raised = IF r.raised THEN "TypeError" ELSE None]
       /\ Commit(r, Operation("register_handler", reg[1], reg[2]))

Next ==
  \/ MarkTouched
  \/ MarkUntouched
  \/ WidgetChange
  \/ SaveState
  \/ LoadState
  \/ SaveToFile
  \/ LoadFromFile
  \/ SaveCustomData
  \/ LoadCustomData
  \/ SkipWidget
  \/ UnskipWidget
  \/ HasUnsavedChanges
  \/ HasUnsavedChangesFile
  \/ GetManagedWidgets

Spec == Init /\ [][Next]_vars

\* The operations that act on the widget tree.
NextTree ==
  \/ WidgetChange
  \/ SaveState
  \/ LoadState
  \/ SaveToFile
  \/ LoadFromFile
  \/ SkipWidget
  \/ UnskipWidget

SpecUnnamed == InitUnnamed /\ [][NextTree]_vars

SpecSiblings == InitSiblings /\ [][NextTree]_vars

\* The operations that involve the handler registry.
NextRegistry ==
  \/ RegisterHandler
  \/ WidgetChange
  \/ SaveState
  \/ LoadState
  \/ HasUnsavedChanges

SpecRegistry == InitRegistry /\ [][NextRegistry]_vars

\* The operations on a window of nested containers.
NextComposite ==
  \/ RegisterContainerHandler
  \/ WidgetChange
  \/ SaveState
  \/ LoadState
  \/ HasUnsavedChanges

SpecComposite == InitComposite /\ [][NextComposite]_vars

\* The registration of a handler whose compare raises.
CompareFaultRegistrations == {<<"QCheckBox", "FaultyHandler:compare">>}

RegisterCompareFault ==
  \E reg \in CompareFaultRegistrations :
    LET r == register_handler(Cx, reg[1], reg[2])
    IN /\ ret' = [NoRet EXCEPT !.raised = IF r.raised THEN "TypeError" ELSE None]
       /\ Commit(r, Operation("register_handler", reg[1], reg[2]))

\* The files of an application that keeps two settings files besides one it
\* cannot access.
SourcePaths == {"A", "B", "bad"}

\* A window with one check box, and the three files.
InitSources == InitWithFiles({"mw", "cw", "cb"}, EmptyStore, SourcePaths)

\* Saving to, loading from and comparing against files.
NextSources ==
  \/ RegisterCompareFault
  \/ WidgetChange
  \/ SaveToFile
  \/ LoadFromFile
  \/ HasUnsavedChanges
  \/ HasUnsavedChangesFile

SpecSources == InitSources /\ [][NextSources]_vars

\* The user clicks a push button that is not a toggle: its value stays, and
\* the slot runs for every connection of the signals of the click.
ClickButton ==
  \E w \in widgets :
    /\ TypeOf(w) = "QPushButton" /\ ~isCheckable(w)
    /\ ret' = NoRet
    /\ Commit(RunSlots(Cx, w, SumSlots(slots, w, QtSignalsOnClick(w))),
              Operation("click", w, None))

\* A window with a toggle button and a plain push button, started on a
\* fresh store or on one that holds a value under each button's name.
InitButtons ==
  \E store \in StoresBefore({"pb", "nb"}) :
    InitWithStore({"mw", "cw", "pb", "nb"}, store)

NextButtons ==
  \/ WidgetChange
  \/ ClickButton
  \/ SaveState
  \/ LoadState
  \/ HasUnsavedChanges

SpecButtons == InitButtons /\ [][NextButtons]_vars

SaveMoreCustomData ==
  \E k \in MoreCustomKeys : \E d \in MorePayloads :
    /\ ret' = NoRet
    /\ Commit(save_custom_data(Cx, k, d), Operation("save_custom_data", k, d))

LoadMoreCustomData ==
  \E k \in MoreCustomKeys :
    /\ ret' = [NoRet EXCEPT !.data = load_custom_data(Cx, k)]
    /\ Commit(Cx, Operation("load_custom_data", k, None))

\* Custom data beside the state of a check box.
NextCustom ==
  \/ SaveMoreCustomData
  \/ LoadMoreCustomData
  \/ WidgetChange
  \/ SaveState
  \/ LoadState

SpecCustom == Init /\ [][NextCustom]_vars

\* A window with a check box of its own beside its central widget, and a
\* window with such a check box and no central widget.
WindowScenes == {{"mw", "cw", "cb", "tb"}, {"mw", "tb"}}

InitWindow == \E scene \in WindowScenes : InitWith(scene)

\* The traversals from the main window.
NextWindow ==
  \/ WidgetChange
  \/ SaveState
  \/ LoadState
  \/ HasUnsavedChanges
  \/ GetManagedWidgets

SpecWindow == InitWindow /\ [][NextWindow]_vars

\* A window with an unnamed and a named check box and a group box holding a
\* radio button.
InitCollect == InitWith({"mw", "cw", "nn", "cb", "gb", "r1"})

\* Discovery of the managed controls under skips and container handlers.
NextCollect ==
  \/ RegisterContainerHandler
  \/ SkipWidget
  \/ UnskipWidget
  \/ LoadState
  \/ GetManagedWidgets

SpecCollect == InitCollect /\ [][NextCollect]_vars

\* The handlers an application registers for its check boxes that differ in
\* the signals they name.
SignalRegistrations ==
  {<<"QCheckBox", "BadSignalHandler">>,
   <<"QCheckBox", "ErrorOnConnectHandler">>,
   <<"QCheckBox", "FaultyHandler:get_signals">>,
   <<"QCheckBox", "DefaultCheckBoxHandler">>}

RegisterSignalHandler ==
  \E reg \in SignalRegistrations :
    LET r == register_handler(Cx, reg[1], reg[2])
    IN /\ ret' = [NoRet EXCEPT !.raised = IF r.raised THEN "TypeError" ELSE None]
       /\ Commit(r, Operation("register_handler", reg[1], reg[2]))

\* A window with a check box, a line edit and a plain push button.
InitSignals == InitWith({"mw", "cw", "cb", "le", "nb"})

\* Loading with handlers whose signals cannot all be connected.
NextSignals ==
  \/ RegisterSignalHandler
  \/ WidgetChange
  \/ SkipWidget
  \/ UnskipWidget
  \/ LoadState
  \/ LoadFromFile

SpecSignals == InitSignals /\ [][NextSignals]_vars

\* Every operation that reads or writes control state, with registrations
\* and skips.
NextFrame ==
  \/ RegisterCompareFault
  \/ WidgetChange
  \/ SaveState
  \/ SaveToFile
  \/ LoadState
  \/ LoadFromFile
  \/ SkipWidget
  \/ UnskipWidget
  \/ HasUnsavedChanges
  \/ HasUnsavedChangesFile
  \/ GetManagedWidgets

\* The window with one check box, in an application that names one file.
InitFrame == InitWithFiles({"mw", "cw", "cb"}, EmptyStore, {"A"})

SpecFrame == InitFrame /\ [][NextFrame]_vars

\* A window with a check box, and after it a line edit and a group box with
\* a radio button.
InitFaults == InitWith({"mw", "cw", "cb", "le", "gb", "r1"})

\* Saving and loading with handlers that raise.
NextFaults ==
  \/ RegisterFaultyHandler
  \/ WidgetChange
  \/ SaveState
  \/ LoadState

SpecFaults == InitFaults /\ [][NextFaults]_vars

\* Saving, loading and comparing a window whose controls the user changes.
NextKinds ==
  \/ WidgetChange
  \/ SaveState
  \/ LoadState
  \/ HasUnsavedChanges

SpecKinds == InitKinds /\ [][NextKinds]_vars

(***************************************************************************)
(* Properties.                                                             *)
(***************************************************************************)
SaveOps == {"save_state", "save_to_file"}

LoadOps == {"load_state", "load_from_file"}

\* e is what an edge-triggered notifier emits while the flag goes from
\* before to after: every emission is a flip of the flag.
Alternates(before, e, after) ==
  /\ \A i \in 1..Len(e) : e[i] = (IF i = 1 THEN ~before ELSE ~e[i - 1])
  /\ after = (IF e = <<>> THEN before ELSE e[Len(e)])

\* C1: touched_changed is emitted exactly when is_touched flips: a new
\* manager is clean, the emitted values alternate True, False, ... starting
\* with True, the last emitted value is is_touched, and an operation that
\* targets the state the manager is already in emits nothing.
C1_EdgeTriggered ==
  /\ [](lastEmit = "none" => ~touched)
  /\ [](lastEmit # "none" => lastEmit = BoolStr(touched))
  /\ [][Alternates(touched, emitted', touched')]_vars

\* C1 witness: a monitored control changed while the manager was already
\* touched, and nothing was emitted.
C1_Witness ==
  /\ op.name = "change"
  /\ op.w \in DOMAIN connected_signals
  /\ op.w \notin skipped_widgets
  /\ touched
  /\ emitted = <<>>

\* C2: when save_state() or save_to_file(path) returns, is_touched is False;
\* touched_changed(False) is emitted once if the manager was touched before
\* the call and nothing is emitted if it was clean.
C2_SaveCleans ==
  [][op'.name \in SaveOps =>
       /\ ~touched'
       /\ emitted' = (IF touched THEN <<FALSE>> ELSE <<>>)]_vars

\* C2 witness: a save that wrote no control value (there is no main window)
\* reset a touched manager.
C2_Witness ==
  /\ op.name \in SaveOps
  /\ topLevelWidgets = <<>>
  /\ emitted = <<FALSE>>
  /\ ~touched

\* C3: a load never makes the manager touched: no touched_changed(True) is
\* emitted during it, at most one touched_changed(False), and is_touched is
\* False when it returns.
C3_LoadNeverTouches ==
  [][op'.name \in LoadOps =>
       /\ ~touched'
       /\ emitted' = (IF touched THEN <<FALSE>> ELSE <<>>)]_vars

\* C3 witness: a load that applied a stored value differing from the
\* control's value, on a manager that was monitoring and touched.
C3_Witness ==
  /\ op.name \in LoadOps
  /\ op.arg = "applied"
  /\ emitted = <<FALSE>>
  /\ "cb" \in DOMAIN connected_signals

\* C4: after a load with a main window present, changing a named,
\* non-skipped control that the load's traversal reached and whose handler
\* names a signal moves a clean manager to touched, with one
\* touched_changed(True).
C4_ChangeTouches ==
  [][(/\ op'.name = "change"
      /\ op'.w \in tracked
      /\ ~_should_skip_widget(Cx, op'.w)
      /\ ~touched)
     => (touched' /\ emitted' = <<TRUE>>)]_vars

\* C4 witness: such a change has made a clean manager touched.
C4_Witness ==
  /\ op.name = "change"
  /\ op.w \in tracked
  /\ op.w \notin skipped_widgets
  /\ emitted = <<TRUE>>
  /\ touched

\* C5: save_custom_data with serializable data leaves is_touched True and
\* emits touched_changed(True) only if the manager was clean;
\* load_custom_data never changes is_touched, emits nothing and changes no
\* other state.
C5_CustomDataTouch ==
  /\ [][(op'.name = "save_custom_data" /\ Picklable(op'.arg)) =>
          /\ touched'
          /\ emitted' = (IF touched THEN <<>> ELSE <<TRUE>>)]_vars
  /\ [][op'.name = "load_custom_data" =>
          /\ touched' = touched
          /\ emitted' = <<>>
          /\ UNCHANGED <<connected_signals, skipped_widgets, handlers, settings,
                         files, value, slots>>]_vars

\* C5 witness: a second consecutive write emitted nothing, and a read
\* returned the written payload on a touched manager.
C5_Witness ==
  /\ op.name = "load_custom_data"
  /\ ret.data = "d1"
  /\ touched
  /\ lastEmit = "true"

\* C6: when pickling the payload fails in save_custom_data, nothing is
\* written and the touched state is not set: a clean manager stays clean and
\* no touched_changed is emitted.
C6_FailedPickleNotTouched ==
  [][(op'.name = "save_custom_data" /\ ~Picklable(op'.arg)) =>
       /\ settings' = settings
       /\ touched' = touched
       /\ emitted' = <<>>]_vars


\* The widget value v is the value the variant stores, for a control of w's kind.
Matches(w, v, variant) ==
  CASE TypeOf(w) = "QCheckBox" -> isChecked(v) = ToBool(variant)
    [] TypeOf(w) = "QLineEdit" -> v = ToStr(variant)
    [] OTHER -> FALSE

\* w is in the list get_managed_widgets() returns.
IsManaged(cx, w) ==
  LET managed == get_managed_widgets(cx)
  IN \E i \in 1..Len(managed) : managed[i] = w

\* The set of the widgets get_managed_widgets() returns.
ManagedSet(cx) ==
  LET managed == get_managed_widgets(cx)
  IN {managed[i] : i \in 1..Len(managed)}

\* The step is a save that writes the value of control d under d's name.
SaveWrites(d) ==
  /\ op'.name = "save_state" =>
       /\ contains(settings', objectName(d))
       /\ Matches(d, value[d], settings'[objectName(d)])
  /\ (op'.name = "save_to_file" /\ files[op'.w].status = "NoError") =>
       /\ contains(files'[op'.w].data, objectName(d))
       /\ Matches(d, value[d], files'[op'.w].data[objectName(d)])

\* The step is a load that leaves control d with the value stored under d's name.
LoadRestores(d) ==
  /\ (op'.name = "load_state" /\ contains(settings, objectName(d))) =>
       Matches(d, value'[d], settings[objectName(d)])
  /\ (/\ op'.name = "load_from_file"
      /\ files[op'.w].status = "NoError"
      /\ contains(files[op'.w].data, objectName(d))) =>
       Matches(d, value'[d], files[op'.w].data[objectName(d)])

\* The store keeps what it held under key k (a value or nothing).
KeyUnchanged(before, after, k) ==
  /\ contains(after, k) = contains(before, k)
  /\ contains(before, k) => after[k] = before[k]

\* The results of has_unsaved_changes against every source, in either
\* platform mode.
CompareResults(cx) ==
  [o \in BOOLEAN |->
     <<has_unsaved_changes([cx EXCEPT !.offscreen = o]),
       [p \in Paths |-> has_unsaved_changes_file([cx EXCEPT !.offscreen = o], p)]>>]

Unnamed == {w \in widgets : objectName(w) = ""}

\* C7: a control with no declared name is excluded from everything, skipped
\* or not: no store key is written for it, a load never modifies its value,
\* changing it changes neither is_touched nor the result of
\* has_unsaved_changes(), it is never subscribed and never in
\* get_managed_widgets().
C7_UnnamedExcluded ==
  /\ [](\A w \in Unnamed :
          /\ ~contains(settings, objectName(w))
          /\ \A p \in Paths : ~contains(files[p].data, objectName(w))
          /\ w \notin DOMAIN connected_signals
          /\ \A n \in SignalNames : slots[<<w, n>>] = 0
          /\ ~IsManaged(Cx, w)
          /\ \A v \in ValuesOf(w) :
               CompareResults([Cx EXCEPT !.value[w] = v]) = CompareResults(Cx))
  /\ [][\A w \in Unnamed :
          /\ op'.name \in LoadOps \cup SaveOps => value'[w] = value[w]
          /\ (op'.name = "change" /\ op'.w = w) =>
               /\ touched' = touched
               /\ emitted' = <<>>]_vars

\* C7 witness: the unnamed check box, not in the skip set, was changed in a
\* window whose named check box is monitored, and the manager is still clean.
C7_Witness ==
  /\ op.name = "change"
  /\ op.w \in Unnamed
  /\ op.w \notin skipped_widgets
  /\ "cb" \in DOMAIN connected_signals
  /\ contains(settings, "cb")
  /\ ~touched

\* C8: while c is in the skip set, changing c never changes is_touched in
\* either direction and emits no touched_changed, whether c was skipped
\* before or after the load that established monitoring and whatever loads
\* follow.
C8_SkippedNeverTouches ==
  [][(op'.name = "change" /\ op'.w \in skipped_widgets) =>
       (touched' = touched /\ emitted' = <<>>)]_vars

\* C8 witness: a control that the last load had subscribed was skipped
\* afterwards and then changed, and the manager is still clean.
C8_Witness ==
  /\ op.name = "change"
  /\ op.w \in skipped_widgets
  /\ op.w \in tracked
  /\ ~touched
  /\ emitted = <<>>

\* c and d are distinct children of one parent.
Siblings(c, d) ==
  /\ c # d
  /\ \E p \in widgets : \E i, j \in 1..Len(ChildrenOf(p)) :
       ChildrenOf(p)[i] = c /\ ChildrenOf(p)[j] = d

\* C9: while c is in the skip set, a save never writes c's key, a load never
\* modifies c's value, has_unsaved_changes does not depend on c's value and
\* get_managed_widgets() does not contain c; a sibling that is managed without
\* c in the skip set is managed with it, and the non-skipped managed controls
\* are still saved, loaded and compared.
C9_SkippedExcluded ==
  /\ [](\A c \in skipped_widgets :
          /\ ~IsManaged(Cx, c)
          /\ \A v \in ValuesOf(c) :
               CompareResults([Cx EXCEPT !.value[c] = v]) = CompareResults(Cx)
          /\ \A d \in widgets :
               (/\ Siblings(c, d)
                /\ IsManaged([Cx EXCEPT !.skipped_widgets = @ \ {c}], d))
               => IsManaged(Cx, d))
  /\ [](\A d \in widgets :
          (/\ skipped_widgets # {}
           /\ IsManaged(Cx, d)
           /\ contains(settings, objectName(d))
           /\ ~Matches(d, value[d], settings[objectName(d)]))
          => has_unsaved_changes(Cx))
  /\ [][\A c \in skipped_widgets :
          /\ op'.name \in SaveOps =>
               /\ KeyUnchanged(settings, settings', objectName(c))
               /\ \A p \in Paths :
                    KeyUnchanged(files[p].data, files'[p].data, objectName(c))
          /\ op'.name \in LoadOps => value'[c] = value[c]]_vars
  /\ [][\A d \in widgets :
          (/\ skipped_widgets # {}
           /\ IsManaged(Cx, d)
           /\ ValuesOf(d) # {})
          => (SaveWrites(d) /\ LoadRestores(d))]_vars

\* C9 witness: a load left the skipped check box with its own value although
\* another value is stored under its name, and applied the stored value of
\* the line edit beside it.
C9_Witness ==
  /\ op.name = "load_state"
  /\ op.arg = "applied"
  /\ "cb" \in skipped_widgets
  /\ contains(settings, "cb")
  /\ ~Matches("cb", value["cb"], settings["cb"])
  /\ contains(settings, "le")
  /\ Matches("le", value["le"], settings["le"])

\* The control has a declared name and a handler that names a signal.
Monitorable(cx, w) ==
  /\ objectName(w) # ""
  /\ _get_handler(cx, w) # None
  /\ HandlerSignals(_get_handler(cx, w), w) # <<>>

\* The last operation took a monitorable control out of the skip set.
JustUnskipped(w) ==
  /\ op.name = "unskip_widget"
  /\ op.arg = "was_skipped"
  /\ op.w = w
  /\ Monitorable(Cx, w)

ReachedThroughSkipped(cx, w) ==
  IsManaged([cx EXCEPT !.skipped_widgets = {}], w)

\* C11: a skipped container does not hide its descendants: every named,
\* non-skipped control with a handler below it is still collected by
\* get_managed_widgets(), written by a save and restored by a load.
C11_SkippedContainerTransparent ==
  /\ [](\A w \in widgets :
          (/\ objectName(w) # ""
           /\ w \notin skipped_widgets
           /\ _get_handler(Cx, w) # None
           /\ ReachedThroughSkipped(Cx, w))
          => IsManaged(Cx, w))
  /\ [][\A w \in widgets :
          (/\ objectName(w) # ""
           /\ w \notin skipped_widgets
           /\ ValuesOf(w) # {}
           /\ ReachedThroughSkipped(Cx, w))
          => (SaveWrites(w) /\ LoadRestores(w))]_vars

\* p is the parent of c in the window.
IsChildOf(c, p) ==
  /\ p \in widgets
  /\ c \in widgets
  /\ \E i \in 1..Len(ChildrenOf(p)) : ChildrenOf(p)[i] = c

RECURSIVE IsBelow(_, _)
\* d is a descendant of p.
IsBelow(d, p) ==
  \E c \in widgets : IsChildOf(c, p) /\ (c = d \/ IsBelow(d, c))

\* p is a composite claimed by an exact-type handler: its exact type is
\* registered and it is neither a main window nor a group box.
ExactComposite(cx, p) ==
  /\ ExactHandler(cx, p) # None
  /\ ~IsInstance(p, "QMainWindow")
  /\ ~IsInstance(p, "QGroupBox")

\* The widgets below an exact composite.
Hidden(cx) ==
  {d \in widgets : \E p \in widgets : ExactComposite(cx, p) /\ IsBelow(d, p)}

RECURSIVE Visited(_, _)
\* The traversal from the main window calls on w, as the claim describes
\* it: the main window is visited; below a visited node that is named, not
\* skipped and not an exact composite, the central widget of a main window
\* and else the direct children are visited.
Visited(cx, w) ==
  \/ w = _find_main_window
  \/ \E p \in widgets :
       /\ IsChildOf(w, p)
       /\ Visited(cx, p)
       /\ ~_should_skip_widget(cx, p)
       /\ ~ExactComposite(cx, p)
       /\ (IsInstance(p, "QMainWindow") /\ centralWidget(p) # None)
            => w = centralWidget(p)

RegisteredPositions(w) ==
  {i \in 1..Len(Mro(TypeOf(w))) : Mro(TypeOf(w))[i] \in DOMAIN handlers}

\* The handler of the most specific registered class of w, or None.
MostSpecificHandler(w) ==
  IF RegisteredPositions(w) = {} THEN None
  ELSE LET i == CHOOSE x \in RegisteredPositions(w) :
                  \A y \in RegisteredPositions(w) : x <= y
       IN handlers[Mro(TypeOf(w))[i]]

\* What handler h writes for w into an empty store.
WrittenBy(h, w) == HandlerSave(h, w, [Cx EXCEPT !.st = EmptyStore]).st

\* C13: handler resolution returns the handler of the control's exact type
\* when it is registered, else the handler of the nearest registered
\* ancestor, else none; a control with no resolved handler is not collected,
\* written or subscribed, and a save writes every collected control with the
\* handler so resolved.
C13_MostSpecificHandler ==
  LET managed == ManagedSet(Cx)
  IN \A w \in widgets :
       /\ _get_handler(Cx, w) = MostSpecificHandler(w)
       /\ MostSpecificHandler(w) = None =>
            /\ w \notin managed
            /\ ~contains(settings, objectName(w))
            /\ w \notin DOMAIN connected_signals
       /\ (op.name = "save_state" /\ w \in managed /\ TypeOf(w) # "QMainWindow") =>
            /\ contains(settings, objectName(w))
            /\ settings[objectName(w)]
                 = WrittenBy(MostSpecificHandler(w), w)[objectName(w)]

\* C13 witness: with a handler registered for QWidget, a save wrote the
\* subclassed check box with the check box handler (its nearest registered
\* ancestor) and the group box with the QWidget handler.
C13_Witness ==
  /\ op.name = "save_state"
  /\ "QWidget" \in DOMAIN handlers
  /\ handlers["QCheckBox"] = "DefaultCheckBoxHandler"
  /\ contains(settings, "mcb")
  /\ settings["mcb"] = VBool(isChecked(value["mcb"]))
  /\ contains(settings, "gb")
  /\ settings["gb"] = VStr("saved")

\* The controls whose exact type is registered.
ExactlyHandled == {w \in widgets : TypeOf(w) \in DOMAIN handlers}

\* C14: register_handler(type, h) with a conforming h maps the type to h,
\* whatever was mapped before (a built-in default included), raises nothing
\* and changes no other mapping; afterwards save, load, compare and connect
\* treat the collected controls of that exact type with h.
C14_RegisterReplaces ==
  /\ [][(op'.name = "register_handler" /\ ConformsToProtocol(op'.arg)) =>
          /\ ret'.raised = None
          /\ DOMAIN handlers' = DOMAIN handlers \cup {op'.w}
          /\ handlers'[op'.w] = op'.arg
          /\ \A t \in DOMAIN handlers \ {op'.w} : handlers'[t] = handlers[t]
          /\ UNCHANGED <<touched, connected_signals, skipped_widgets, settings,
                         files, value, slots>>]_vars
  /\ [](LET managed == ManagedSet(Cx) \cap ExactlyHandled
            controls == {w \in managed : TypeOf(w) # "QMainWindow"}
        IN /\ op.name = "save_state" =>
                \A w \in controls :
                  /\ contains(settings, objectName(w))
                  /\ settings[objectName(w)]
                       = WrittenBy(handlers[TypeOf(w)], w)[objectName(w)]
           /\ op.name = "load_state" =>
                \A w \in controls :
                  /\ Raises(handlers[TypeOf(w)], "load")
                       \/ HandlerLoad(handlers[TypeOf(w)], w, Cx).value[w] = value[w]
                  /\ HandlerSignals(handlers[TypeOf(w)], w) # <<>> =>
                       /\ w \in DOMAIN connected_signals
                       /\ connected_signals[w] = HandlerSignals(handlers[TypeOf(w)], w)
           /\ (/\ op.name = "has_unsaved_changes"
               /\ \E w \in controls :
                    \/ Raises(handlers[TypeOf(w)], "compare")
                    \/ HandlerCompare(handlers[TypeOf(w)], w, Cx))
              => ret.changed)

\* C14 witness: with InvertedCheckBoxHandler registered in place of the
\* built-in check box handler, a load changed the check box to the negation
\* of the stored value.
C14_Witness ==
  /\ op.name = "load_state"
  /\ op.arg = "applied"
  /\ handlers["QCheckBox"] = "InvertedCheckBoxHandler"
  /\ "cb" \in DOMAIN connected_signals
  /\ contains(settings, "cb")
  /\ settings["cb"].t = "bool"
  /\ isChecked(value["cb"]) = ~ToBool(settings["cb"])

\* C15: register_handler with an object that lacks one of the four
\* operations raises TypeError and changes nothing: the registry keeps the
\* handler the type had, or no handler.
C15_InvalidHandlerRejected ==
  [][(op'.name = "register_handler" /\ ~ConformsToProtocol(op'.arg)) =>
       /\ ret'.raised = "TypeError"
       /\ UNCHANGED <<handlers, touched, connected_signals, skipped_widgets,
                      settings, files, value, slots>>
       /\ emitted' = <<>>]_vars

\* C15 witness: an object without get_signals_to_monitor was refused for
\* QCheckBox, which keeps the handler registered before.
C15_Witness ==
  /\ op.name = "register_handler"
  /\ op.w = "QCheckBox"
  /\ op.arg = "PartialHandler"
  /\ ret.raised = "TypeError"
  /\ handlers["QCheckBox"] = "InvertedCheckBoxHandler"

(***************************************************************************)
(* C16: round trip of the built-in handlers.                               *)
(***************************************************************************)
\* The ten supported control kinds.
ControlKinds ==
  {"QCheckBox", "QLineEdit", "QPushButton", "QComboBox", "QSpinBox",
   "QDoubleSpinBox", "QRadioButton", "QTextEdit", "QTabWidget", "QSlider"}

\* The managed controls of the supported kinds.
ManagedControls(cx) == {w \in ManagedSet(cx) : TypeOf(w) \in ControlKinds}

\* save_state() now, then the user's change of x to v2, then load_state().
RoundTrip(cx, x, v2) == load_state(SetWidgetValue(save_state(cx), x, v2))

\* Every user change that gives w another value (a radio button loses its
\* check when the user checks another button of its group) is undone by the
\* load.
Restored(cx, w) ==
  \A x \in DOMAIN cx.value : \A v2 \in ValuesOf(x) :
    SetWidgetValue(save_state(cx), x, v2).value[w] # cx.value[w]
      => RoundTrip(cx, x, v2).value[w] = cx.value[w]

UniqueName(cx, w) ==
  \A x \in ManagedSet(cx) \ {w} : objectName(x) # objectName(w)

\* A combo box with no current item (currentIndex() = -1).
NoSelection(cx, w) == TypeOf(w) = "QComboBox" /\ cx.value[w] = "-1"

Unsaved(cx) == \E o \in BOOLEAN : has_unsaved_changes([cx EXCEPT !.offscreen = o])

\* C17 as stated: immediately after save_state() returns,
\* has_unsaved_changes() against the default store returns False, for any
\* widget tree whose managed controls use the built-in handlers and
\* whatever values the controls hold.
C17_CleanAfterSave ==
  /\ op.name = "save_state" => ~Unsaved(Cx)
  /\ ~Unsaved(save_state(Cx))

\* The managed controls have pairwise distinct names.
DistinctNames(cx) == \A w \in ManagedSet(cx) : UniqueName(cx, w)

\* C17 amended: the same, for a widget tree whose managed controls have
\* pairwise distinct names.  Two controls of one name share a key: the save
\* leaves the value of the one visited last, and the other compares as
\* changed whenever the two values differ.
C17_CleanAfterSaveDistinctNames ==
  /\ (op.name = "save_state" /\ DistinctNames(Cx)) => ~Unsaved(Cx)
  /\ DistinctNames(Cx) => ~Unsaved(save_state(Cx))
  /\ (op.name = "save_state" /\ ~DistinctNames(Cx)) =>
        (Unsaved(Cx) <=> \E w, x \in ManagedSet(Cx) :
                            objectName(w) = objectName(x) /\ value[w] # value[x])

\* A save has just stored a value the control did not have when the window
\* was built, so the user had changed it, and the comparison was asked for.
C17_Witness ==
  /\ op.name = "has_unsaved_changes" /\ ~ret.changed
  /\ "sl" \in widgets /\ value["sl"] = "0"
  /\ contains(settings, "sl") /\ settings["sl"] = VInt("0")
  /\ topLevelWidgets # <<>>

(***************************************************************************)
(* C18: a load leaves nothing unsaved.                                     *)
(***************************************************************************)
\* C18 as stated: immediately after load_state() returns,
\* has_unsaved_changes() against the same default store returns False,
\* whatever the store contained before the load.
C18_CleanAfterLoad == op.name = "load_state" => ~Unsaved(Cx)

\* The store holds a check state for every radio button of w's group, and
\* exactly one of them is checked.
GroupStored(cx, w) ==
  LET group == ExclusivePeers(w) \cup {w}
  IN /\ \A x \in group : contains(cx.settings, objectName(x))
     /\ \E x \in group :
          /\ ToBool(cx.settings[objectName(x)])
          /\ \A y \in group \ {x} : ~ToBool(cx.settings[objectName(y)])

\* What the store holds for control w is something load gives the control:
\* an index of an existing item or tab, a value inside the range, one checked
\* button per radio group; for the other kinds anything, or nothing.
Loadable(cx, w) ==
  LET k == StoreKey(w)
      n == ToInt(value_of(cx.settings, k, VInt("0")))
  IN CASE TypeOf(w) \in {"QComboBox", "QTabWidget"} ->
            contains(cx.settings, k) => (0 <= n /\ n < count(w))
       [] TypeOf(w) \in {"QSpinBox", "QSlider"} ->
            contains(cx.settings, k) => (minimum(w) <= n /\ n <= maximum(w))
       [] TypeOf(w) = "QRadioButton" -> GroupStored(cx, w)
       [] OTHER -> TRUE

\* The store holds the geometry and the state of main window w.
WindowStored(cx, w) ==
  /\ contains(cx.settings, MainWindowKey(w, "geometry"))
  /\ cx.settings[MainWindowKey(w, "geometry")].t = "bytes"
  /\ contains(cx.settings, MainWindowKey(w, "state"))
  /\ cx.settings[MainWindowKey(w, "state")] = VBytes("state0")

\* Everything the compare traversal looks at can be restored from the store.
Restorable(cx, offscreen) ==
  \A w \in ManagedSet(cx) :
    IF TypeOf(w) = "QMainWindow" THEN offscreen \/ WindowStored(cx, w)
    ELSE Loadable(cx, w)

\* The store holds an index outside the items or tabs, or a value outside
\* the range, of a managed control.
OutOfBounds(cx) ==
  \E w \in ManagedSet(cx) :
    /\ TypeOf(w) \in {"QComboBox", "QTabWidget", "QSpinBox", "QSlider"}
    /\ ~Loadable(cx, w)

\* The result of has_unsaved_changes() on the given platform, given what the
\* store holds.
CleanIfRestorable(cx, offscreen) ==
  LET changed == has_unsaved_changes([cx EXCEPT !.offscreen = offscreen])
  IN /\ Restorable(cx, offscreen) => ~changed
     /\ OutOfBounds(cx) => changed

\* C18 amended: immediately after load_state() returns,
\* has_unsaved_changes() against the same default store returns False
\* provided the store held, for every managed control, a value its load
\* applies (an index of an existing item or tab, a value inside the range of
\* a spin box or slider, one checked button per radio group) and, unless the
\* platform is offscreen, the geometry and state of the main window.  After
\* the load of an index or value out of bounds it returns True.
C18_CleanAfterLoadOfRestorable ==
  \A o \in BOOLEAN :
    /\ op.name = "load_state" => CleanIfRestorable(Cx, o)
    /\ CleanIfRestorable(load_state(Cx), o)

\* A load has just moved the tab widget to the stored tab, from a store that
\* also holds the window's geometry.
C18_Witness ==
  /\ op.name = "load_state" /\ op.arg = "applied"
  /\ "tw" \in widgets /\ value["tw"] = "1"
  /\ Restorable(Cx, FALSE) /\ ManagedSet(Cx) # {}

(***************************************************************************)
(* C19: change detection does not depend on the subscriptions.             *)
(***************************************************************************)
\* What the built-in save writes for a control of w's kind holding v.
SavedForm(w, v) ==
  CASE IsCheckKind(w) -> VBool(isChecked(v))
    [] TypeOf(w) \in {"QLineEdit", "QTextEdit"} -> VStr(v)
    [] TypeOf(w) = "QDoubleSpinBox" -> VFloat(v)
    [] OTHER -> VInt(v)

\* The store holds, under the name of w, what a save wrote while w held
\* another value than it holds now.
DiffersFromSaved(cx, w) ==
  /\ contains(cx.settings, StoreKey(w))
  /\ \E v0 \in ValuesOf(w) \ {cx.value[w]} :
       cx.settings[StoreKey(w)] = SavedForm(w, v0)

DiffersBeyondTolerance(cx, w) ==
  /\ contains(cx.settings, StoreKey(w))
  /\ \E v0 \in ValuesOf(w) \ {cx.value[w]} :
       /\ cx.settings[StoreKey(w)] = SavedForm(w, v0)
       /\ TypeOf(w) = "QDoubleSpinBox" =>
            abs(FloatUnits(v0) - FloatUnits(cx.value[w])) > FLOAT_TOLERANCE

CompareTraversal(cx) ==
  _process_widget_and_recurse([cx EXCEPT !.st = cx.settings], _find_main_window,
                              "compare")

\* The nodes the traversal visits with a handler whose compare raises.
RaisingNodes(cx) == {w \in ManagedSet(cx) : Raises(_get_handler(cx, w), "compare")}

\* C20: a handler whose compare raises for a visited node makes
\* has_unsaved_changes() return True; the exception does not reach the
\* caller.
C20_CompareErrorIsDirty ==
  RaisingNodes(Cx) # {} =>
    /\ \A o \in BOOLEAN :
         LET r == CompareTraversal([Cx EXCEPT !.offscreen = o])
         IN r.diff /\ ~r.raised /\ has_unsaved_changes([Cx EXCEPT !.offscreen = o])
    /\ op.name = "has_unsaved_changes" => (ret.changed /\ ret.raised = None)

\* On a fresh store and an offscreen platform no built-in compare finds a
\* difference: the True just returned comes from the check box handler that
\* raises.
C20_Witness ==
  /\ op.name = "has_unsaved_changes" /\ op.arg = BoolStr(TRUE) /\ ret.changed
  /\ settings = EmptyStore /\ "cb" \in widgets
  /\ handlers["QCheckBox"] = "FaultyHandler:compare"

(***************************************************************************)
(* C21: a handler that raises does not abort a save or a load.             *)
(***************************************************************************)
\* The managed nodes whose handler raises in the given method.
FaultyNodes(cx, method) ==
  {w \in ManagedSet(cx) : Raises(_get_handler(cx, w), method)}

\* The managed controls with a built-in handler.
SoundNodes(cx) == {w \in ManagedControls(cx) : ~IsFaulty(_get_handler(cx, w))}

\* The monitored signals of w are connected once each.
Subscribed(cx, w) ==
  /\ w \in DOMAIN cx.connected_signals
  /\ \A i \in 1..Len(cx.connected_signals[w]) :
       cx.slots[<<w, cx.connected_signals[w][i].name>>] = 1

\* C21: a handler that raises during save, load or signal enumeration for
\* one node never aborts the operation: the exception is not propagated,
\* every other node of the traversal (later siblings and their descendants)
\* is still saved / loaded / subscribed, and the save or load still
\* completes and resets the manager to clean.
C21_FaultyHandlerContained ==
  LET saved == save_state(Cx)
      loaded == load_state(Cx)
  IN /\ FaultyNodes(Cx, "save") # {} =>
          /\ ~saved.raised /\ ~saved.touched
          /\ \A w \in SoundNodes(Cx) :
               /\ contains(saved.settings, StoreKey(w))
               /\ saved.settings[StoreKey(w)] = SavedForm(w, value[w])
          /\ \A f \in FaultyNodes(Cx, "save") :
               KeyUnchanged(settings, saved.settings, StoreKey(f))
     /\ FaultyNodes(Cx, "load") # {} =>
          /\ ~loaded.raised /\ ~loaded.touched
          /\ \A w \in SoundNodes(Cx) :
               /\ contains(settings, StoreKey(w)) =>
                    settings[StoreKey(w)] = SavedForm(w, loaded.value[w])
               /\ Subscribed(loaded, w)
          /\ \A f \in FaultyNodes(Cx, "load") : loaded.value[f] = value[f]
     /\ FaultyNodes(Cx, "get_signals") # {} =>
          /\ ~loaded.raised /\ ~loaded.touched
          /\ \A w \in SoundNodes(Cx) : Subscribed(loaded, w)
          /\ \A f \in FaultyNodes(Cx, "get_signals") :
               f \notin DOMAIN loaded.connected_signals
     /\ op.name \in {"save_state", "load_state"} =>
          (~touched /\ ret.raised = None)

\* With the check box handler raising in load, a load has just put the radio
\* button in the group box after the check box back to its saved state.
C21_Witness ==
  /\ op.name = "load_state" /\ op.arg = "applied"
  /\ handlers["QCheckBox"] = "FaultyHandler:load"
  /\ value["r1"] = "checked"
  /\ contains(settings, "r1") /\ settings["r1"] = VBool(TRUE)
  /\ "le" \in DOMAIN connected_signals

\* ---------------------------------------------------------------------------
\* C22: has_unsaved_changes(source) returns False, without raising and without
\* visiting any control, when source is a file path whose store reports an
\* error status, and also when no main window can be found, whatever the
\* controls' values are.  A visit of a control is observable through a handler
\* whose compare raises: the traversal would report a difference.
Unreadable(cx) == {p \in DOMAIN cx.files : cx.files[p].status # "NoError"}

RaisingCompare(cx) == [cx EXCEPT !.handlers["QCheckBox"] = "FaultyHandler:compare"]

C22_NoComparisonWithoutSource ==
  /\ \A offscreen \in BOOLEAN :
       LET cx == RaisingCompare([Cx EXCEPT !.offscreen = offscreen])
       IN /\ \A p \in Unreadable(cx) : ~has_unsaved_changes_file(cx, p)
          /\ _find_main_window = None =>
                /\ ~has_unsaved_changes(cx)
                /\ \A p \in DOMAIN files : ~has_unsaved_changes_file(cx, p)
  /\ (/\ op.name \in {"has_unsaved_changes", "has_unsaved_changes_file"}
      /\ \/ _find_main_window = None
         \/ op.name = "has_unsaved_changes_file" /\ op.w \in Unreadable(Cx))
     => ~ret.changed /\ ret.raised = None

C22_Witness ==
  /\ op.name = "has_unsaved_changes_file"
  /\ op.w \in Unreadable(Cx)
  /\ ~ret.changed
  /\ handlers["QCheckBox"] = "FaultyHandler:compare"
  /\ _find_main_window # None
  /\ has_unsaved_changes(Cx)

\* ---------------------------------------------------------------------------
\* C23: load_from_file(path) on a store that reports an error status changes
\* no control value, removes every subscription (so that a later change of a
\* control no longer marks the manager touched) and leaves is_touched False.
NoSubscription(cx) ==
  /\ DOMAIN cx.connected_signals = {}
  /\ \A x \in DOMAIN cx.slots : cx.slots[x] = 0

C23_RefusedLoadTearsDown ==
  /\ \A p \in Unreadable(Cx) :
       LET r == load_from_file(Cx, p)
       IN /\ ~r.raised
          /\ r.value = value
          /\ r.settings = settings /\ r.files = files
          /\ NoSubscription(r)
          /\ ~r.touched
          /\ \A w \in widgets : \A v \in ValuesOf(w) :
               ~SetWidgetValue(r, w, v).touched
  /\ (op.name = "load_from_file" /\ op.arg = "refused")
        => ~touched /\ NoSubscription(Cx) /\ ret.raised = None

\* The refused load has just reset a touched manager (it emitted
\* touched_changed(False)) whose check box had been changed.
C23_Witness ==
  /\ op.name = "load_from_file" /\ op.arg = "refused"
  /\ emitted = <<FALSE>>
  /\ value["cb"] # InitialValue("cb")
  /\ NoSubscription(Cx)

\* ---------------------------------------------------------------------------
\* C24: a save whose store reports an error status after the flush raises
\* nothing and produces no change: the manager is as touched after the call
\* as it was before it.
C24_FailedSaveKeepsTouched ==
  [][(op'.name = "save_to_file" /\ op'.w \in Unreadable(Cx))
       => (ret'.raised = None /\ touched' = touched)]_vars

\* ---------------------------------------------------------------------------
\* C25: comparison is against the given source only.  Once file A holds an
\* earlier state of the controls and the present state is saved to file B,
\* has_unsaved_changes(A) returns True and has_unsaved_changes(B) returns
\* False; save_to_file(B) alters neither file A nor the default store.
Readable(cx) == DOMAIN cx.files \ Unreadable(cx)

\* File a holds, for the check box, what a save wrote while the check box
\* held another value than it holds now.
FileDiffers(cx, a) ==
  /\ contains(cx.files[a].data, StoreKey("cb"))
  /\ \E v0 \in ValuesOf("cb") \ {cx.value["cb"]} :
       cx.files[a].data[StoreKey("cb")] = IniRead(SavedForm("cb", v0))

SoundCompare(cx) == \A w \in ManagedSet(cx) : ~Raises(_get_handler(cx, w), "compare")

C25_ComparedWithGivenSource ==
  /\ \A b \in Readable(Cx) :
       LET s == save_to_file(Cx, b)
       IN /\ s.settings = settings
          /\ \A a \in DOMAIN files \ {b} : s.files[a] = files[a]
          /\ (_find_main_window # None /\ SoundCompare(Cx)) =>
                \A o \in BOOLEAN :
                  /\ ~has_unsaved_changes_file([s EXCEPT !.offscreen = o], b)
                  /\ \A a \in Readable(Cx) \ {b} :
                       FileDiffers(Cx, a) =>
                         has_unsaved_changes_file([s EXCEPT !.offscreen = o], a)
  /\ (/\ op.name = "has_unsaved_changes_file"
      /\ op.w \in Readable(Cx)
      /\ _find_main_window # None
      /\ FileDiffers(Cx, op.w)) => ret.changed

\* The check box was saved to A and loaded from A, then changed and saved to
\* B; the default store was never written; the comparison with A has just
\* returned True and the one with B returns False.
C25_Witness ==
  /\ op.name = "has_unsaved_changes_file" /\ op.w = "A"
  /\ ret.changed
  /\ FileDiffers(Cx, "A")
  /\ contains(files["B"].data, "cb")
  /\ files["B"].data["cb"] = IniRead(SavedForm("cb", value["cb"]))
  /\ "cb" \in DOMAIN connected_signals
  /\ settings = EmptyStore
  /\ SoundCompare(Cx)
  /\ ~has_unsaved_changes_file(Cx, "B")

\* ---------------------------------------------------------------------------
\* C26: is_touched and has_unsaved_changes() are decoupled.  The comparison
\* never changes is_touched and its result does not depend on is_touched;
\* a touched manager may have nothing unsaved (a custom-data write after a
\* save) and an untouched one may have unsaved changes.
WithTouched(cx, o, t) == [cx EXCEPT !.offscreen = o, !.touched = t]

C26_TouchedDecoupledFromUnsaved ==
  /\ \A o \in BOOLEAN :
       /\ has_unsaved_changes(WithTouched(Cx, o, TRUE))
            = has_unsaved_changes(WithTouched(Cx, o, FALSE))
       /\ \A p \in DOMAIN files :
            has_unsaved_changes_file(WithTouched(Cx, o, TRUE), p)
              = has_unsaved_changes_file(WithTouched(Cx, o, FALSE), p)
       /\ _find_main_window # None =>
            LET r == CompareTraversal([Cx EXCEPT !.offscreen = o])
            IN r.touched = touched /\ r.emitted = <<>>
  /\ \A k \in CustomKeys : \A d \in Payloads :
       LET c == save_custom_data(Cx, k, d)
       IN /\ Picklable(d) => c.touched
          /\ \A o \in BOOLEAN :
               has_unsaved_changes([c EXCEPT !.offscreen = o])
                 = has_unsaved_changes([Cx EXCEPT !.offscreen = o])

\* After a save, a custom-data write has just marked the manager touched and
\* has_unsaved_changes() returns False.
C26_Witness ==
  /\ op.name = "save_custom_data"
  /\ emitted = <<TRUE>>
  /\ touched
  /\ contains(settings, "cb")
  /\ _find_main_window # None
  /\ ~has_unsaved_changes(Cx)

\* The other mixed state: has_unsaved_changes() has just returned True for a
\* manager that is not touched.
C26_CleanButUnsaved ==
  /\ op.name = "has_unsaved_changes"
  /\ ret.changed
  /\ ~touched

\* ---------------------------------------------------------------------------
\* C27: loading a combo box whose stored index is outside [0, count) never
\* raises and leaves the combo box at index 0 when it has at least one item.
\* The store holds for w an index that is no item or tab of w.
StoredIndexOutside(cx, w) ==
  /\ w \in ManagedSet(cx)
  /\ contains(cx.settings, StoreKey(w))
  /\ LET index == ToInt(cx.settings[StoreKey(w)])
     IN ~(0 <= index /\ index < count(w))

C27_ComboOutOfRangeLoadsZero ==
  \A w \in {x \in widgets : TypeOf(x) = "QComboBox" /\ count(x) > 0} :
    StoredIndexOutside(Cx, w) =>
      /\ LET r == load_state(Cx)
         IN ~r.raised /\ r.value[w] = "0"
      /\ op.name = "load_state" => (value[w] = "0" /\ ret.raised = None)

\* A load has just found 999 stored for the three-item combo box, which is
\* now at index 0 and subscribed.
C27_Witness ==
  /\ op.name = "load_state" /\ op.arg = "applied"
  /\ "co" \in widgets
  /\ contains(settings, IndexKey("co"))
  /\ settings[IndexKey("co")] = VInt("999")
  /\ count("co") = 3
  /\ value["co"] = "0"
  /\ "co" \in DOMAIN connected_signals

\* ---------------------------------------------------------------------------
\* C28: loading a tab widget whose stored index is outside [0, count) never
\* raises and leaves the tab widget at an index clamped into bounds or at
\* index 0, not at the index it had before the load, provided it has at
\* least one tab.
ClampedIndex(w, index) ==
  IF index < 0 THEN 0 ELSE IF index >= count(w) THEN count(w) - 1 ELSE index

C28_TabOutOfRangeClampedOrZero ==
  \A w \in {x \in widgets : TypeOf(x) = "QTabWidget" /\ count(x) > 0} :
    (op.name = "load_state" /\ StoredIndexOutside(Cx, w)) =>
      /\ ret.raised = None
      /\ value[w] \in {"0", Numeral(ClampedIndex(w, ToInt(settings[StoreKey(w)])))}

\* ---------------------------------------------------------------------------
\* C29: loading a slider whose stored value is outside [minimum, maximum]
\* leaves the slider at exactly its value before the load (not 0 and not a
\* clamped value) and logs a warning; a stored value inside the range is
\* applied.
Sliders(cx) == {w \in ManagedSet(cx) : TypeOf(w) = "QSlider"}

StoredInRange(cx, w) ==
  LET v == ToInt(cx.settings[StoreKey(w)])
  IN minimum(w) <= v /\ v <= maximum(w)

C29_SliderOutOfRangeKeepsValue ==
  \A w \in Sliders(Cx) :
    contains(settings, StoreKey(w)) =>
      LET r == load_state(Cx)
          stored == Numeral(ToInt(settings[StoreKey(w)]))
          log == SliderLoadLog(w, [Cx EXCEPT !.st = settings])
      IN /\ ~r.raised
         /\ IF StoredInRange(Cx, w)
            THEN /\ r.value[w] = stored
                 /\ log = None
                 /\ op.name = "load_state" => value[w] = stored
            ELSE /\ r.value[w] = value[w]
                 /\ log = "warning"

\* A load has just found 999 stored for the slider of range 0..50, which
\* still holds 25 and is subscribed.
C29_Witness ==
  /\ op.name = "load_state"
  /\ "sl" \in widgets
  /\ contains(settings, "sl") /\ settings["sl"] = VInt("999")
  /\ maximum("sl") = 50
  /\ value["sl"] = "25"
  /\ "sl" \in DOMAIN connected_signals

\* ---------------------------------------------------------------------------
\* C30: the baseline of a control the store holds no value for.
\* The store holds nothing under the keys the built-in handler of w reads.
NeverSaved(cx, w) ==
  IF TypeOf(w) = "QMainWindow"
  THEN /\ ~contains(cx.settings, MainWindowKey(w, "geometry"))
       /\ ~contains(cx.settings, MainWindowKey(w, "state"))
  ELSE ~contains(cx.settings, StoreKey(w))

\* compare of w's handler against the default store
CompareOf(cx, w) == HandlerCompare(_get_handler(cx, w), w, [cx EXCEPT !.st = cx.settings])

\* C30 as stated: comparing against a store that holds no value for a control
\* uses the control's current value as the baseline, so every built-in
\* handler's compare reports "unchanged" for a never-saved control whatever
\* its value; the only exception is a radio button, whose compare with no
\* stored value reports "changed" exactly when the button is checked.
C30_NeverSavedUnchanged ==
  op.name = "has_unsaved_changes" =>
    LET cx == [Cx EXCEPT !.offscreen = (op.arg = BoolStr(TRUE))]
    IN \A w \in ManagedSet(cx) :
         NeverSaved(cx, w) =>
           CompareOf(cx, w) = (TypeOf(w) = "QRadioButton" /\ isChecked(value[w]))

\* What compare reports for a never-saved w.
NoBaselineResult(cx, w) ==
  CASE TypeOf(w) = "QRadioButton" -> isChecked(cx.value[w])
    [] TypeOf(w) = "QMainWindow" -> ~cx.offscreen
    [] OTHER -> FALSE

\* C30 amended: for a never-saved control every built-in control handler's
\* compare reports "unchanged" whatever the control's value, except that a
\* radio button reports "changed" exactly when it is checked, and that the
\* main window handler, which compares geometry and state with what the
\* store holds, reports "changed" unless the platform is offscreen.
C30_NeverSavedUnchangedButWindow ==
  \A o \in BOOLEAN :
    LET cx == [Cx EXCEPT !.offscreen = o]
        managed == ManagedSet(cx)
    IN /\ \A w \in managed :
            NeverSaved(cx, w) => CompareOf(cx, w) = NoBaselineResult(cx, w)
       /\ (/\ op.name = "has_unsaved_changes"
           /\ op.arg = BoolStr(o)
           /\ \A w \in managed : NeverSaved(cx, w))
          => ret.changed = (\E w \in managed : NoBaselineResult(cx, w))

\* Nothing was ever saved, the line edit no longer holds its initial text,
\* and has_unsaved_changes() on the offscreen platform has just returned
\* False.
C30_Witness ==
  /\ op.name = "has_unsaved_changes" /\ op.arg = BoolStr(TRUE)
  /\ settings = EmptyStore
  /\ "le" \in widgets /\ value["le"] # InitialValue("le")
  /\ ~ret.changed

\* ---------------------------------------------------------------------------
\* C31: a push button that is not in checkable mode carries no persistable
\* state: save writes no key for it, load does not modify it, compare returns
\* False for it whatever the store holds, and it contributes no monitored
\* signal, so that clicking it never marks the manager touched.
PlainButtons == {w \in widgets : TypeOf(w) = "QPushButton" /\ ~isCheckable(w)}

C31_PlainButtonHasNoState ==
  \A w \in PlainButtons :
    LET saved == save_state(Cx)
        loaded == load_state(Cx)
        clicked == RunSlots(loaded, w, SumSlots(loaded.slots, w, QtSignalsOnClick(w)))
    IN /\ KeyUnchanged(settings, saved.settings, objectName(w))
       /\ loaded.value[w] = value[w]
       /\ ~CompareOf(Cx, w)
       /\ HandlerSignals(_get_handler(Cx, w), w) = <<>>
       /\ w \notin DOMAIN loaded.connected_signals
       /\ w \notin DOMAIN connected_signals
       /\ \A n \in SignalNames : slots[<<w, n>>] = 0 /\ loaded.slots[<<w, n>>] = 0
       /\ clicked.touched = loaded.touched
       /\ op.name = "click" => emitted = <<>>

\* After a load that subscribed the toggle button, the plain button, for which
\* the store holds True, has just been clicked: it is unchecked and the
\* manager is not touched.
C31_Witness ==
  /\ op.name = "click" /\ op.w = "nb"
  /\ "pb" \in DOMAIN connected_signals
  /\ contains(settings, "nb") /\ settings["nb"] = VBool(TRUE)
  /\ value["nb"] = "unchecked"
  /\ ~touched

\* ---------------------------------------------------------------------------
\* C32: get_managed_widgets() returns exactly the controls that are named,
\* not in the skip set, reached by the traversal from the main window and
\* for which a handler (exact or ancestor) resolves, each once; a named
\* group box with no registered handler is not returned although its named
\* children are; the list is empty when there is no main window.
Collectable(cx) ==
  {w \in widgets :
     /\ Visited(cx, w)
     /\ ~_should_skip_widget(cx, w)
     /\ _get_handler(cx, w) # None}

C32_ManagedExactly ==
  LET managed == get_managed_widgets(Cx)
      set == {managed[i] : i \in 1..Len(managed)}
  IN /\ set = Collectable(Cx)
     /\ Len(managed) = Cardinality(set)
     /\ _find_main_window = None => managed = <<>>
     /\ \A g \in widgets :
          (/\ TypeOf(g) = "QGroupBox"
           /\ Visited(Cx, g) /\ ~_should_skip_widget(Cx, g)
           /\ _get_handler(Cx, g) = None)
          => /\ g \notin set
             /\ \A c \in widgets :
                  (/\ IsChildOf(c, g)
                   /\ ~_should_skip_widget(Cx, c)
                   /\ _get_handler(Cx, c) # None) => c \in set
     /\ op.name = "get_managed_widgets" => ret.managed = managed

\* get_managed_widgets() has just returned the window, the check box and the
\* radio button, and neither the group box around the radio button nor the
\* central widget nor the unnamed check box.
C32_Witness ==
  /\ op.name = "get_managed_widgets"
  /\ ret.managed = <<"mw", "cb", "r1">>
  /\ skipped_widgets = {}

\* ---------------------------------------------------------------------------
\* C33: custom-data round trip.  save_custom_data(k, d) followed by
\* load_custom_data(k) returns d, also when writes to other keys,
\* save_state() or load_state() happen in between; load_custom_data of a key
\* never written returns None.
\* What load_custom_data returns for every key.
CustomData(cx) == [k \in MoreCustomKeys |-> load_custom_data(cx, k)]

C33_CustomDataRoundTrip ==
  /\ \A k \in MoreCustomKeys : \A d \in {x \in MorePayloads : Picklable(x)} :
       LET c == save_custom_data(Cx, k, d)
       IN /\ load_custom_data(c, k) = d
          /\ \A k2 \in MoreCustomKeys \ {k} : \A d2 \in MorePayloads :
               load_custom_data(save_custom_data(c, k2, d2), k) = d
          /\ load_custom_data(save_state(c), k) = d
          /\ load_custom_data(load_state(c), k) = d
  /\ CustomData(save_state(Cx)) = CustomData(Cx)
  /\ CustomData(load_state(Cx)) = CustomData(Cx)
  /\ \A w \in widgets : \A v \in ValuesOf(w) :
       CustomData(SetWidgetValue(Cx, w, v)) = CustomData(Cx)
  /\ \A k \in MoreCustomKeys :
       ~contains(settings, "customData/" \o k) => load_custom_data(Cx, k) = None
  /\ op.name = "load_custom_data" => ret.data = load_custom_data(Cx, op.w)

\* After d1 was written under k1, d2 under k2 and the check box saved,
\* load_custom_data(k1) has just returned d1.
C33_Witness ==
  /\ op.name = "load_custom_data" /\ op.w = "k1"
  /\ ret.data = "d1"
  /\ load_custom_data(Cx, "k2") = "d2"
  /\ contains(settings, "cb")

\* ---------------------------------------------------------------------------
\* C34: subscriptions never accumulate.  After any number of repeated
\* load_state() calls or repeated connect traversals the subscription table
\* holds at most one entry per control, with the same signal list as after
\* the first, so each monitored signal of a control is connected to the
\* change handler at most once.
\* self._connect_signals(main_window)
ConnectTraversal(cx) ==
  IF _find_main_window = None THEN cx
  ELSE _process_widget_and_recurse(cx, _find_main_window, "connect")

\* The subscription table and Qt's connections.
Subscriptions(cx) == <<cx.connected_signals, cx.slots>>

\* Each signal is connected once when the table lists it and not at all
\* otherwise.
ConnectedOnce(cx) ==
  \A w \in widgets : \A n \in SignalNames :
    cx.slots[<<w, n>>] =
      IF /\ w \in DOMAIN cx.connected_signals
         /\ \E i \in 1..Len(cx.connected_signals[w]) :
              cx.connected_signals[w][i] = Sig(w, n)
      THEN 1 ELSE 0

C34_SubscriptionsDoNotAccumulate ==
  LET once == load_state(Cx)
      connected == ConnectTraversal(Cx)
  IN /\ ConnectedOnce(Cx)
     /\ ConnectedOnce(once)
     /\ ConnectedOnce(connected)
     /\ Subscriptions(load_state(once)) = Subscriptions(once)
     /\ Subscriptions(ConnectTraversal(once)) = Subscriptions(once)
     /\ Subscriptions(ConnectTraversal(connected)) = Subscriptions(connected)

\* A load has just subscribed the changed check box: its stateChanged signal
\* is connected once, and one more load leaves the same subscriptions.
C34_Witness ==
  /\ op.name = "load_state"
  /\ "cb" \in tracked
  /\ "cb" \in DOMAIN connected_signals
  /\ slots[<<"cb", "stateChanged">>] = 1
  /\ Subscriptions(load_state(Cx)) = Subscriptions(Cx)
  /\ value["cb"] # InitialValue("cb")

\* ---------------------------------------------------------------------------
\* C35: compare short-circuits.  As soon as the compare of one visited node
\* returns True or raises, no further node's compare is called and
\* has_unsaved_changes returns True; when no node reports a difference,
\* every reachable managed node is compared exactly once and the result is
\* False.
\* The compare of w's handler returns True or raises.
Reports(cx, w) ==
  \/ Raises(_get_handler(cx, w), "compare")
  \/ HandlerCompare(_get_handler(cx, w), w, [cx EXCEPT !.st = cx.settings])

\* The first position of the traversal order at which a node reports, or 0.
RECURSIVE FirstReport(_, _, _)
FirstReport(cx, order, i) ==
  IF i > Len(order) THEN 0
  ELSE IF Reports(cx, order[i]) THEN i
  ELSE FirstReport(cx, order, i + 1)

ShortCircuits(cx) ==
  LET order == get_managed_widgets(cx)
      first == FirstReport(cx, order, 1)
      r == CompareTraversal(cx)
  IN IF first > 0
     THEN r.compared = SubSeq(order, 1, first) /\ r.diff /\ has_unsaved_changes(cx)
     ELSE r.compared = order /\ ~r.diff /\ ~has_unsaved_changes(cx)

C35_CompareShortCircuits ==
  _find_main_window # None =>
    /\ \A o \in BOOLEAN : ShortCircuits([Cx EXCEPT !.offscreen = o])
    /\ op.name = "has_unsaved_changes" =>
         ret.changed
           = (FirstReport([Cx EXCEPT !.offscreen = (op.arg = BoolStr(TRUE))],
                          get_managed_widgets(Cx), 1) > 0)

\* has_unsaved_changes() has just returned True: the compare of the first
\* check box reports, and the check box in the group box after it, whose
\* compare would report too, was not compared.
C35_Witness ==
  /\ op.name = "has_unsaved_changes" /\ op.arg = BoolStr(TRUE)
  /\ ret.changed
  /\ Reports(Cx, "cb") /\ Reports(Cx, "mcb")
  /\ CompareTraversal(Cx).compared = <<"mw", "cb">>

\* ---------------------------------------------------------------------------
\* C36: for a main window that has a central widget, every traversal visits
\* only the central widget's subtree: the window's other direct children are
\* never saved, loaded, compared, monitored or collected; the window's
\* direct children are enumerated only when no central widget is set.
\* The direct children of the main window other than its central widget.
BesideCentral ==
  {w \in widgets : IsChildOf(w, "mw") /\ w # centralWidget("mw")}

\* The store with b under the name of w.
WithStored(cx, w, b) == [cx EXCEPT !.settings = setValue(@, StoreKey(w), VBool(b))]

\* No traversal touches w.
NotTraversed(cx, w) ==
  /\ KeyUnchanged(cx.settings, save_state(cx).settings, StoreKey(w))
  /\ \A b \in BOOLEAN :
       /\ load_state(WithStored(cx, w, b)).value[w] = cx.value[w]
       /\ \A o \in BOOLEAN :
            LET r == CompareTraversal([WithStored(cx, w, b) EXCEPT !.offscreen = o])
            IN /\ \A i \in 1..Len(r.compared) : r.compared[i] # w
               /\ r.diff = has_unsaved_changes([cx EXCEPT !.offscreen = o])
  /\ w \notin DOMAIN load_state(cx).connected_signals
  /\ w \notin DOMAIN ConnectTraversal(cx).connected_signals
  /\ ~IsManaged(cx, w)

\* Every traversal applies its operation to w.
Traversed(cx, w) ==
  /\ contains(save_state(cx).settings, StoreKey(w))
  /\ save_state(cx).settings[StoreKey(w)] = SavedForm(w, cx.value[w])
  /\ \A b \in BOOLEAN :
       load_state(WithStored(cx, w, b)).value[w] = CheckedValue(b)
  /\ \E i \in 1..Len(CompareTraversal(cx).compared) :
       CompareTraversal(cx).compared[i] = w
  /\ w \in DOMAIN load_state(cx).connected_signals
  /\ IsManaged(cx, w)

Connectable(cx, w) ==
  LET h == _get_handler(cx, w)
  IN /\ h # None
     /\ ~Raises(h, "get_signals")
     /\ \E i \in 1..Len(HandlerSignals(h, w)) :
          /\ IsSignalInstance(HandlerSignals(h, w)[i])
          /\ ~ConnectRaises(HandlerSignals(h, w)[i])

\* The last operation was a load_state(), or a load_from_file() on a
\* healthy file, in an application that has a main window.
AfterLoad ==
  /\ op.name \in {"load_state", "load_from_file"}
  /\ op.arg # "refused"
  /\ topLevelWidgets # <<>>

\* No change of the control's value marks the manager touched.
CannotTouch(cx, w) ==
  \A v \in ValuesOf(w) : SetWidgetValue(cx, w, v).touched = cx.touched

\* C37: right after load_state() or a load_from_file() on a healthy file,
\* with a main window, the controls in the subscription table are exactly
\* the controls get_managed_widgets() returns whose handler names at least
\* one connectable signal; every other control (handler raising in
\* get_signals_to_monitor, naming no signal, or naming only objects that
\* cannot be connected) is absent from the table, has no connected signal,
\* and no change of it marks the manager touched.
C37_SubscribedAreManagedAndConnectable ==
  AfterLoad =>
    /\ DOMAIN connected_signals = {w \in ManagedSet(Cx) : Connectable(Cx, w)}
    /\ \A w \in widgets :
         ~Connectable(Cx, w) =>
           /\ w \notin DOMAIN connected_signals
           /\ \A n \in SignalNames : slots[<<w, n>>] = 0
           /\ CannotTouch(Cx, w)

\* C37 witness: after a load the check box, whose handler names only objects
\* that are no signals, is managed but not subscribed, while the line edit
\* is subscribed.
C37_Witness ==
  /\ AfterLoad
  /\ handlers["QCheckBox"] = "BadSignalHandler"
  /\ "cb" \in ManagedSet(Cx)
  /\ "cb" \notin DOMAIN connected_signals
  /\ "le" \in DOMAIN connected_signals

(***************************************************************************)
(* C38                                                                     *)
(***************************************************************************)
\* The controls that are in the skip set or have no declared name.
SkippedOrUnnamed == {w \in widgets : objectName(w) = "" \/ w \in skipped_widgets}

\* C38: in every reachable state no control that is in the skip set or has
\* no declared name is in the subscription table, and none of its signals is
\* connected: skip_widget removes the control's subscriptions, and neither a
\* load nor unskip_widget nor the connect traversal subscribes such a control.
C38_SkippedOrUnnamedNotSubscribed ==
  \A w \in SkippedOrUnnamed :
    /\ w \notin DOMAIN connected_signals
    /\ \A n \in SignalNames : slots[<<w, n>>] = 0

\* C38 witness: the unnamed check box has just been unskipped while the named
\* check box, made eligible by the last load, sits in the skip set; the
\* table holds neither.
C38_Witness ==
  /\ op.name = "unskip_widget"
  /\ op.w = "nn"
  /\ op.arg = "was_skipped"
  /\ "cb" \in skipped_widgets
  /\ "cb" \in tracked
  /\ DOMAIN connected_signals = {}

(***************************************************************************)
(* C39                                                                     *)
(***************************************************************************)
\* Some change of the control's value marks a clean manager touched.
CanTouch(cx, w) ==
  \E v \in ValuesOf(w) :
    SetWidgetValue([cx EXCEPT !.touched = FALSE], w, v).touched

\* C39: in every reachable state every control in the subscription table,
\* and every control whose change can mark the manager touched, is one that
\* get_managed_widgets() returns; so after skip_widget(container) no
\* descendant of the container can mark the manager touched, and
\* unskip_widget(c) subscribes no control that the traversal cannot reach.
\* The code does not keep this: skip_widget disconnects the container alone
\* and unskip_widget connects without a traversal.
C39_SubscribedAreManaged ==
  \A w \in widgets :
    (w \in DOMAIN connected_signals \/ CanTouch(Cx, w)) => w \in ManagedSet(Cx)

(***************************************************************************)
(* C40                                                                     *)
(***************************************************************************)
\* The operations that only read the controls or only write a store or the
\* handler registry.
FrameOps ==
  {"save_state", "save_to_file", "has_unsaved_changes",
   "has_unsaved_changes_file", "get_managed_widgets", "register_handler"}

\* The operations that may create a subscription.
SubscribingOps == {"load_state", "load_from_file", "unskip_widget"}

\* The step added a control to the subscription table or connected a signal.
CreatesSubscription ==
  \/ DOMAIN connected_signals' \ DOMAIN connected_signals # {}
  \/ \E x \in DOMAIN slots : slots'[x] > slots[x]

\* C40: save_state, save_to_file, has_unsaved_changes, get_managed_widgets
\* and register_handler leave every control's value, the subscription table
\* (and the connections behind it) and the skip set unchanged; a subscription
\* is created only by load_state, load_from_file or unskip_widget; and while
\* there is no subscription, as on a manager on which none of these has been
\* called, no change of a control alters is_touched or emits touched_changed.
C40_FrameAndSubscriptionSources ==
  [][/\ (op'.name \in FrameOps) =>
          (/\ value' = value
           /\ connected_signals' = connected_signals
           /\ slots' = slots
           /\ skipped_widgets' = skipped_widgets)
      /\ (CreatesSubscription => op'.name \in SubscribingOps)
      /\ ((NoSubscription(Cx) /\ op'.name = "change") =>
            (touched' = touched /\ emitted' = <<>>))]_vars

\* C40 witness: a save_state() after a load on a window whose check box is
\* subscribed and has been changed: the save wrote the store and the
\* subscription is still there.
C40_Witness ==
  /\ op.name = "save_state"
  /\ topLevelWidgets # <<>>
  /\ "cb" \in DOMAIN connected_signals
  /\ slots[<<"cb", "stateChanged">>] = 1
  /\ value["cb"] = "checked"
  /\ contains(settings, "cb")

====
